---- MODULE Spec2Model ----
(***************************************************************************)
(* Configuration manager of sublimeai21/config: Loader (loader.go),        *)
(* Validator (validator.go) and Manager (manager.go).                      *)
(*                                                                         *)
(* Go strings are sequences of one-character strings, so that strconv.Atoi,*)
(* strings.ToLower, len() and fmt.Sscanf are computed character by         *)
(* character.  Durations are integers counted in milliseconds.             *)
(***************************************************************************)
EXTENDS Integers, Sequences, FiniteSets, TLC

-----------------------------------------------------------------------------
(* String literals of the source.                                          *)
S_8080 == <<"8", "0", "8", "0">>
S_9090 == <<"9", "0", "9", "0">>
S_5432 == <<"5", "4", "3", "2">>
S_6379 == <<"6", "3", "7", "9">>
S_0000 == <<"0", ".", "0", ".", "0", ".", "0">>
S_localhost == <<"l", "o", "c", "a", "l", "h", "o", "s", "t">>
S_postgres == <<"p", "o", "s", "t", "g", "r", "e", "s">>
S_app == <<"a", "p", "p">>
S_disable == <<"d", "i", "s", "a", "b", "l", "e">>
S_require == <<"r", "e", "q", "u", "i", "r", "e">>
S_verify_ca == <<"v", "e", "r", "i", "f", "y", "-", "c", "a">>
S_verify_full == <<"v", "e", "r", "i", "f", "y", "-", "f", "u", "l", "l">>
S_info == <<"i", "n", "f", "o">>
S_json == <<"j", "s", "o", "n">>
S_text == <<"t", "e", "x", "t">>
S_console == <<"c", "o", "n", "s", "o", "l", "e">>
S_debug == <<"d", "e", "b", "u", "g">>
S_warn == <<"w", "a", "r", "n">>
S_warning == <<"w", "a", "r", "n", "i", "n", "g">>
S_error == <<"e", "r", "r", "o", "r">>
S_fatal == <<"f", "a", "t", "a", "l">>
S_panic == <<"p", "a", "n", "i", "c">>
S_default_secret == <<"y", "o", "u", "r", "-", "s", "e", "c", "r", "e", "t", "-", "k", "e", "y">>
S_long_secret == <<"t", "e", "s", "t", "-", "s", "e", "c", "r", "e", "t", "-", "t", "h", "a", "t", "-", "i", "s", "-", "l", "o", "n", "g", "-", "e", "n", "o", "u", "g", "h", "-", "f", "o", "r", "-", "v", "a", "l", "i", "d", "a", "t", "i", "o", "n">>
S_development == <<"d", "e", "v", "e", "l", "o", "p", "m", "e", "n", "t">>
S_staging == <<"s", "t", "a", "g", "i", "n", "g">>
S_production == <<"p", "r", "o", "d", "u", "c", "t", "i", "o", "n">>
S_test == <<"t", "e", "s", "t">>
S_version == <<"1", ".", "0", ".", "0">>
S_config_yaml == <<"c", "o", "n", "f", "i", "g", ".", "y", "a", "m", "l">>
S_true == <<"t", "r", "u", "e">>
S_1 == <<"1">>
S_yes == <<"y", "e", "s">>
S_on == <<"o", "n">>
S_false == <<"f", "a", "l", "s", "e">>
S_0 == <<"0">>
S_no == <<"n", "o">>
S_off == <<"o", "f", "f">>
S_empty == <<>>
S_alt_yaml == <<"a", "l", "t", ".", "y", "a", "m", "l">>

-----------------------------------------------------------------------------
(* Character-level helpers of the Go standard library.                     *)

Digits == <<"0", "1", "2", "3", "4", "5", "6", "7", "8", "9">>

IsDigit(c) == \E i \in 1..Len(Digits) : Digits[i] = c

DigitVal(c) == (CHOOSE i \in 1..Len(Digits) : Digits[i] = c) - 1

Upper == <<"A", "B", "C", "D", "E", "F", "G", "H", "I", "J", "K", "L", "M",
           "N", "O", "P", "Q", "R", "S", "T", "U", "V", "W", "X", "Y", "Z">>

Lower == <<"a", "b", "c", "d", "e", "f", "g", "h", "i", "j", "k", "l", "m",
           "n", "o", "p", "q", "r", "s", "t", "u", "v", "w", "x", "y", "z">>

\* strings.ToLower, on ASCII text
ToLowerChar(c) ==
    IF \E i \in 1..Len(Upper) : Upper[i] = c
    THEN Lower[CHOOSE i \in 1..Len(Upper) : Upper[i] = c]
    ELSE c

ToLower(s) == [i \in 1..Len(s) |-> ToLowerChar(s[i])]

\* value of a non-empty run of decimal digits
RECURSIVE DigitsValue(_)
DigitsValue(s) ==
    IF Len(s) = 0 THEN 0
    ELSE 10 * DigitsValue(SubSeq(s, 1, Len(s) - 1)) + DigitVal(s[Len(s)])

AllDigits(s) == \A i \in 1..Len(s) : IsDigit(s[i])

\* longest prefix of s made of decimal digits
RECURSIVE DigitPrefixLen(_)
DigitPrefixLen(s) ==
    IF Len(s) > 0 /\ IsDigit(s[1]) THEN 1 + DigitPrefixLen(Tail(s)) ELSE 0

HasSign(s) == Len(s) > 0 /\ s[1] \in {"+", "-"}

Unsigned(s) == IF HasSign(s) THEN Tail(s) ELSE s

\* strconv.Atoi: optional sign, then one or more decimal digits and nothing
\* else ("ok" is err == nil)
Atoi(s) ==
    LET body == Unsigned(s) IN
    IF Len(body) > 0 /\ AllDigits(body)
    THEN [ok |-> TRUE,
          val |-> IF HasSign(s) /\ s[1] = "-" THEN 0 - DigitsValue(body)
                  ELSE DigitsValue(body)]
    ELSE [ok |-> FALSE, val |-> 0]

-----------------------------------------------------------------------------
(* config.go: the configuration record.                                    *)

ServerConfig(port, host, rt, wt, it) ==
    [Port |-> port, Host |-> host, ReadTimeout |-> rt, WriteTimeout |-> wt,
     IdleTimeout |-> it]

DatabaseConfig(host, port, user, password, dbname, sslmode, maxconns) ==
    [Host |-> host, Port |-> port, User |-> user, Password |-> password,
     DBName |-> dbname, SSLMode |-> sslmode, MaxConns |-> maxconns]

RedisConfig(host, port, password, db) ==
    [Host |-> host, Port |-> port, Password |-> password, DB |-> db]

LogConfig(level, format, outputPath) ==
    [Level |-> level, Format |-> format, OutputPath |-> outputPath]

JWTConfig(secret, expiration, issuer) ==
    [Secret |-> secret, Expiration |-> expiration, Issuer |-> issuer]

EmailConfig(host, port, username, password, from) ==
    [Host |-> host, Port |-> port, Username |-> username,
     Password |-> password, From |-> from]

AppConfig(name, environment, version, debug) ==
    [Name |-> name, Environment |-> environment, Version |-> version,
     Debug |-> debug]

Config(server, database, redis, log, jwt, email, app) ==
    [Server |-> server, Database |-> database, Redis |-> redis, Log |-> log,
     JWT |-> jwt, Email |-> email, App |-> app]

Sections == {"Server", "Database", "Redis", "Log", "JWT", "Email", "App"}

\* the zero value of Config (ServerConfig{}, DatabaseConfig{}, ...)
ZeroConfig ==
    Config(ServerConfig(S_empty, S_empty, 0, 0, 0),
           DatabaseConfig(S_empty, S_empty, S_empty, S_empty, S_empty, S_empty, 0),
           RedisConfig(S_empty, S_empty, S_empty, 0),
           LogConfig(S_empty, S_empty, S_empty),
           JWTConfig(S_empty, 0, S_empty),
           EmailConfig(S_empty, 0, S_empty, S_empty, S_empty),
           AppConfig(S_empty, S_empty, S_empty, FALSE))

\* time.Second, time.Minute and time.Hour in milliseconds
Second == 1000
Minute == 60 * Second
Hour == 60 * Minute

-----------------------------------------------------------------------------
(* loader.go: environment helpers.  An environment maps every key to its   *)
(* value, the empty string standing for an unset variable (os.Getenv).     *)

EnvKeys ==
    {"SERVER_PORT", "SERVER_HOST", "SERVER_READ_TIMEOUT", "SERVER_WRITE_TIMEOUT",
     "SERVER_IDLE_TIMEOUT", "DB_HOST", "DB_PORT", "DB_USER", "DB_PASSWORD",
     "DB_NAME", "DB_SSL_MODE", "DB_MAX_CONNS", "REDIS_HOST", "REDIS_PORT",
     "REDIS_PASSWORD", "REDIS_DB", "LOG_LEVEL", "LOG_FORMAT", "LOG_OUTPUT_PATH",
     "JWT_SECRET", "JWT_EXPIRATION", "JWT_ISSUER", "EMAIL_HOST", "EMAIL_PORT",
     "EMAIL_USERNAME", "EMAIL_PASSWORD", "EMAIL_FROM", "APP_NAME",
     "APP_ENVIRONMENT", "APP_VERSION", "APP_DEBUG", "CONFIG_PATH"}

\* a variable of the process environment: unset, or set to a value, which
\* may be the empty string
Unset == [set |-> FALSE, value |-> S_empty]

SetTo(value) == [set |-> TRUE, value |-> value]

\* os.Getenv, for every key: the empty string for an unset variable
Getenv(process) ==
    [k \in EnvKeys |-> IF process[k].set THEN process[k].value ELSE S_empty]

\* getEnv returning what os.Getenv gave, empty or not
getEnv_any(env, key, defaultValue) == env[key]

getEnv(env, key, defaultValue) ==
    IF env[key] # S_empty THEN env[key] ELSE defaultValue

\* fmt.Sscanf(s, "%d", &i): an optional sign and the longest run of digits
\* that follows; whatever comes after the digits is left unread
parseInt(s) ==
    LET body == Unsigned(s)
        n == DigitPrefixLen(body)
        v == DigitsValue(SubSeq(body, 1, n))
    IN IF n > 0
       THEN [ok |-> TRUE, val |-> IF HasSign(s) /\ s[1] = "-" THEN 0 - v ELSE v]
       ELSE [ok |-> FALSE, val |-> 0]

parseBool(s) ==
    LET l == ToLower(s) IN
    IF l \in {S_true, S_1, S_yes, S_on} THEN [ok |-> TRUE, val |-> TRUE]
    ELSE IF l \in {S_false, S_0, S_no, S_off} THEN [ok |-> TRUE, val |-> FALSE]
    ELSE [ok |-> FALSE, val |-> FALSE]

\* the unit table of time.ParseDuration, in milliseconds
UnitMs(u) ==
    IF u = <<"m", "s">> THEN 1
    ELSE IF u = <<"s">> THEN Second
    ELSE IF u = <<"m">> THEN Minute
    ELSE IF u = <<"h">> THEN Hour
    ELSE 0

\* length of the unit that starts s: the characters up to the next digit
RECURSIVE UnitLen(_)
UnitLen(s) ==
    IF Len(s) > 0 /\ ~IsDigit(s[1]) /\ s[1] # "." THEN 1 + UnitLen(Tail(s)) ELSE 0

\* the groups <digits><unit> of time.ParseDuration, summed
RECURSIVE ParseGroups(_)
ParseGroups(s) ==
    IF Len(s) = 0 THEN [ok |-> TRUE, val |-> 0]
    ELSE LET n == DigitPrefixLen(s)
             rest == SubSeq(s, n + 1, Len(s))
             u == UnitLen(rest)
             unit == SubSeq(rest, 1, u)
             more == ParseGroups(SubSeq(rest, u + 1, Len(rest)))
         IN IF n = 0 \/ u = 0 \/ UnitMs(unit) = 0 \/ ~more.ok
            THEN [ok |-> FALSE, val |-> 0]
            ELSE [ok |-> TRUE,
                  val |-> DigitsValue(SubSeq(s, 1, n)) * UnitMs(unit) + more.val]

\* time.ParseDuration for whole numbers of the units ms, s, m and h
ParseDuration(s) ==
    LET body == Unsigned(s)
        g == ParseGroups(body)
    IN IF body = S_0 THEN [ok |-> TRUE, val |-> 0]
       ELSE IF Len(body) = 0 \/ ~g.ok THEN [ok |-> FALSE, val |-> 0]
       ELSE [ok |-> TRUE, val |-> IF HasSign(s) /\ s[1] = "-" THEN 0 - g.val ELSE g.val]

\* getIntEnv giving 0 for a value it cannot parse
getIntEnv_zero(env, key, defaultValue) ==
    IF env[key] # S_empty /\ parseInt(env[key]).ok
    THEN parseInt(env[key]).val
    ELSE IF env[key] # S_empty THEN 0 ELSE defaultValue

getIntEnv(env, key, defaultValue) ==
    IF env[key] # S_empty /\ parseInt(env[key]).ok
    THEN parseInt(env[key]).val ELSE defaultValue

getBoolEnv(env, key, defaultValue) ==
    IF env[key] # S_empty /\ parseBool(env[key]).ok
    THEN parseBool(env[key]).val ELSE defaultValue

getDurationEnv(env, key, defaultValue) ==
    IF env[key] # S_empty /\ ParseDuration(env[key]).ok
    THEN ParseDuration(env[key]).val ELSE defaultValue

\* the field LoadFromEnvironment fills from a variable
FieldOf(cfg, key) ==
    CASE key = "SERVER_PORT" -> cfg.Server.Port
      [] key = "SERVER_HOST" -> cfg.Server.Host
      [] key = "SERVER_READ_TIMEOUT" -> cfg.Server.ReadTimeout
      [] key = "SERVER_WRITE_TIMEOUT" -> cfg.Server.WriteTimeout
      [] key = "SERVER_IDLE_TIMEOUT" -> cfg.Server.IdleTimeout
      [] key = "DB_HOST" -> cfg.Database.Host
      [] key = "DB_PORT" -> cfg.Database.Port
      [] key = "DB_USER" -> cfg.Database.User
      [] key = "DB_NAME" -> cfg.Database.DBName
      [] key = "DB_MAX_CONNS" -> cfg.Database.MaxConns
      [] key = "REDIS_DB" -> cfg.Redis.DB
      [] key = "JWT_SECRET" -> cfg.JWT.Secret
      [] key = "JWT_EXPIRATION" -> cfg.JWT.Expiration
      [] key = "EMAIL_PORT" -> cfg.Email.Port
      [] key = "APP_NAME" -> cfg.App.Name
      [] key = "APP_ENVIRONMENT" -> cfg.App.Environment
      [] key = "APP_VERSION" -> cfg.App.Version
      [] key = "APP_DEBUG" -> cfg.App.Debug

\* Loader.LoadFromEnvironment: never fails
LoadFromEnvironment(env) ==
    Config(
      ServerConfig(getEnv(env, "SERVER_PORT", S_8080),
                   getEnv(env, "SERVER_HOST", S_0000),
                   getDurationEnv(env, "SERVER_READ_TIMEOUT", 30 * Second),
                   getDurationEnv(env, "SERVER_WRITE_TIMEOUT", 30 * Second),
                   getDurationEnv(env, "SERVER_IDLE_TIMEOUT", 60 * Second)),
      DatabaseConfig(getEnv(env, "DB_HOST", S_localhost),
                     getEnv(env, "DB_PORT", S_5432),
                     getEnv(env, "DB_USER", S_postgres),
                     getEnv(env, "DB_PASSWORD", S_empty),
                     getEnv(env, "DB_NAME", S_app),
                     getEnv(env, "DB_SSL_MODE", S_disable),
                     getIntEnv(env, "DB_MAX_CONNS", 10)),
      RedisConfig(getEnv(env, "REDIS_HOST", S_localhost),
                  getEnv(env, "REDIS_PORT", S_6379),
                  getEnv(env, "REDIS_PASSWORD", S_empty),
                  getIntEnv(env, "REDIS_DB", 0)),
      LogConfig(getEnv(env, "LOG_LEVEL", S_info),
                getEnv(env, "LOG_FORMAT", S_json),
                getEnv(env, "LOG_OUTPUT_PATH", S_empty)),
      JWTConfig(getEnv(env, "JWT_SECRET", S_default_secret),
                getDurationEnv(env, "JWT_EXPIRATION", 24 * Hour),
                getEnv(env, "JWT_ISSUER", S_app)),
      EmailConfig(getEnv(env, "EMAIL_HOST", S_empty),
                  getIntEnv(env, "EMAIL_PORT", 587),
                  getEnv(env, "EMAIL_USERNAME", S_empty),
                  getEnv(env, "EMAIL_PASSWORD", S_empty),
                  getEnv(env, "EMAIL_FROM", S_empty)),
      AppConfig(getEnv(env, "APP_NAME", S_app),
                getEnv(env, "APP_ENVIRONMENT", S_development),
                getEnv(env, "APP_VERSION", S_version),
                getBoolEnv(env, "APP_DEBUG", FALSE)))

-----------------------------------------------------------------------------
(* loader.go: the File strategy.  A file system maps a path to the content *)
(* of the file: kind "missing" (no such file), "unparsable" (not a         *)
(* structured document), "unbindable" (a value of the wrong type for its   *)
(* field) or "ok", with the record written in it and the set of keys the   *)
(* document leaves out (named as the variable viper derives from the key). *)

strconvParseBool(s) ==
    IF s \in {S_1, <<"t">>, <<"T">>, S_true, <<"T", "R", "U", "E">>, <<"T", "r", "u", "e">>}
    THEN [ok |-> TRUE, val |-> TRUE]
    ELSE IF s \in {S_0, <<"f">>, <<"F">>, S_false, <<"F", "A", "L", "S", "E">>,
                   <<"F", "a", "l", "s", "e">>}
    THEN [ok |-> TRUE, val |-> FALSE]
    ELSE [ok |-> FALSE, val |-> FALSE]

\* NewLoader: viper.AutomaticEnv with the replacer "." -> "_": a key the
\* document holds reads as the variable SECTION_FIELD when that is non-empty
viperGetString(content, env, key, fileValue) ==
    IF key \notin content.absent /\ key \in DOMAIN env /\ env[key] # S_empty
    THEN env[key] ELSE fileValue

viperOverridden(content, env, key) ==
    key \notin content.absent /\ key \in DOMAIN env /\ env[key] # S_empty

viperGetInt(content, env, key, fileValue) ==
    IF viperOverridden(content, env, key) THEN Atoi(env[key])
    ELSE [ok |-> TRUE, val |-> fileValue]

viperGetBool(content, env, key, fileValue) ==
    IF viperOverridden(content, env, key) THEN strconvParseBool(env[key])
    ELSE [ok |-> TRUE, val |-> fileValue]

viperGetDuration(content, env, key, fileValue) ==
    IF viperOverridden(content, env, key) THEN ParseDuration(env[key])
    ELSE [ok |-> TRUE, val |-> fileValue]

\* the typed values viper.Unmarshal has to bind
viperTyped(content, env) ==
    LET c == content.cfg IN
    [ReadTimeout |-> viperGetDuration(content, env, "SERVER_READ_TIMEOUT", c.Server.ReadTimeout),
     WriteTimeout |-> viperGetDuration(content, env, "SERVER_WRITE_TIMEOUT", c.Server.WriteTimeout),
     IdleTimeout |-> viperGetDuration(content, env, "SERVER_IDLE_TIMEOUT", c.Server.IdleTimeout),
     MaxConns |-> viperGetInt(content, env, "DATABASE_MAX_CONNS", c.Database.MaxConns),
     DB |-> viperGetInt(content, env, "REDIS_DB", c.Redis.DB),
     Expiration |-> viperGetDuration(content, env, "JWT_EXPIRATION", c.JWT.Expiration),
     Port |-> viperGetInt(content, env, "EMAIL_PORT", c.Email.Port),
     Debug |-> viperGetBool(content, env, "APP_DEBUG", c.App.Debug)]

viperUnmarshal(content, env) ==
    LET c == content.cfg
        t == viperTyped(content, env)
    IN Config(
         ServerConfig(viperGetString(content, env, "SERVER_PORT", c.Server.Port),
                      viperGetString(content, env, "SERVER_HOST", c.Server.Host),
                      t.ReadTimeout.val, t.WriteTimeout.val, t.IdleTimeout.val),
         DatabaseConfig(viperGetString(content, env, "DATABASE_HOST", c.Database.Host),
                        viperGetString(content, env, "DATABASE_PORT", c.Database.Port),
                        viperGetString(content, env, "DATABASE_USER", c.Database.User),
                        viperGetString(content, env, "DATABASE_PASSWORD", c.Database.Password),
                        viperGetString(content, env, "DATABASE_DBNAME", c.Database.DBName),
                        viperGetString(content, env, "DATABASE_SSLMODE", c.Database.SSLMode),
                        t.MaxConns.val),
         RedisConfig(viperGetString(content, env, "REDIS_HOST", c.Redis.Host),
                     viperGetString(content, env, "REDIS_PORT", c.Redis.Port),
                     viperGetString(content, env, "REDIS_PASSWORD", c.Redis.Password),
                     t.DB.val),
         LogConfig(viperGetString(content, env, "LOG_LEVEL", c.Log.Level),
                   viperGetString(content, env, "LOG_FORMAT", c.Log.Format),
                   viperGetString(content, env, "LOG_OUTPUT_PATH", c.Log.OutputPath)),
         JWTConfig(viperGetString(content, env, "JWT_SECRET", c.JWT.Secret),
                   t.Expiration.val,
                   viperGetString(content, env, "JWT_ISSUER", c.JWT.Issuer)),
         EmailConfig(viperGetString(content, env, "EMAIL_HOST", c.Email.Host),
                     t.Port.val,
                     viperGetString(content, env, "EMAIL_USERNAME", c.Email.Username),
                     viperGetString(content, env, "EMAIL_PASSWORD", c.Email.Password),
                     viperGetString(content, env, "EMAIL_FROM", c.Email.From)),
         AppConfig(viperGetString(content, env, "APP_NAME", c.App.Name),
                   viperGetString(content, env, "APP_ENVIRONMENT", c.App.Environment),
                   viperGetString(content, env, "APP_VERSION", c.App.Version),
                   t.Debug.val))

\* the result of a loader call: err is "" for nil
LoadOk(cfg) == [err |-> "", cfg |-> cfg]

LoadErr(msg) == [err |-> msg, cfg |-> ZeroConfig]

\* Loader.LoadFromFile
LoadFromFile(configPath, fs, env) ==
    LET content == fs[configPath]
        t == viperTyped(content, env)
    IN IF content.kind \in {"missing", "unparsable"}
       THEN LoadErr("failed to read config file")
       ELSE IF content.kind = "unbindable" \/ \E f \in DOMAIN t : ~t[f].ok
       THEN LoadErr("failed to unmarshal config")
       ELSE LoadOk(viperUnmarshal(content, env))

\* LoadStrategy (iota)
EnvironmentStrategy == 0
FileStrategy == 1
HybridStrategy == 2

\* Loader.Load with Hybrid reporting the failure of a file it tried
LoaderLoad_strict(strategy, fs, env) ==
    IF strategy = FileStrategy
    THEN LoadFromFile(getEnv(env, "CONFIG_PATH", S_config_yaml), fs, env)
    ELSE IF strategy = EnvironmentStrategy
    THEN LoadOk(LoadFromEnvironment(env))
    ELSE IF strategy = HybridStrategy
    THEN IF getEnv(env, "CONFIG_PATH", S_empty) # S_empty
         THEN LoadFromFile(getEnv(env, "CONFIG_PATH", S_empty), fs, env)
         ELSE LoadOk(LoadFromEnvironment(env))
    ELSE LoadOk(LoadFromEnvironment(env))

\* Loader.Load with the File strategy as the default case of the switch
LoaderLoad_default_file(strategy, fs, env) ==
    IF strategy = EnvironmentStrategy
    THEN LoadOk(LoadFromEnvironment(env))
    ELSE IF strategy = HybridStrategy
    THEN IF getEnv(env, "CONFIG_PATH", S_empty) # S_empty
            /\ LoadFromFile(getEnv(env, "CONFIG_PATH", S_empty), fs, env).err = ""
         THEN LoadFromFile(getEnv(env, "CONFIG_PATH", S_empty), fs, env)
         ELSE LoadOk(LoadFromEnvironment(env))
    ELSE LoadFromFile(getEnv(env, "CONFIG_PATH", S_config_yaml), fs, env)

\* Loader.Load
LoaderLoad(strategy, fs, env) ==
    IF strategy = FileStrategy
    THEN LoadFromFile(getEnv(env, "CONFIG_PATH", S_config_yaml), fs, env)
    ELSE IF strategy = EnvironmentStrategy
    THEN LoadOk(LoadFromEnvironment(env))
    ELSE IF strategy = HybridStrategy
    THEN IF getEnv(env, "CONFIG_PATH", S_empty) # S_empty
            /\ LoadFromFile(getEnv(env, "CONFIG_PATH", S_empty), fs, env).err = ""
         THEN LoadFromFile(getEnv(env, "CONFIG_PATH", S_empty), fs, env)
         ELSE LoadOk(LoadFromEnvironment(env))
    ELSE LoadOk(LoadFromEnvironment(env))

-----------------------------------------------------------------------------
(* validator.go: each validate<Section> returns the messages it appends to *)
(* v.errors, in the order of the source.                                   *)

Opt(cond, msg) == IF cond THEN <<msg>> ELSE <<>>

InList(s, list) == \E i \in 1..Len(list) : s = list[i]

portMessages(port, name) ==
    IF port = S_empty THEN <<name \o " port is required">>
    ELSE Opt(~Atoi(port).ok, name \o " port must be a valid integer")

validateServer(config) ==
    portMessages(config.Port, "server")
    \o Opt(config.Host = S_empty, "server host is required")
    \o Opt(config.ReadTimeout <= 0, "server read timeout must be positive")
    \o Opt(config.WriteTimeout <= 0, "server write timeout must be positive")
    \o Opt(config.IdleTimeout <= 0, "server idle timeout must be positive")

validSSLModes == <<S_disable, S_require, S_verify_ca, S_verify_full>>

validateDatabase(config) ==
    Opt(config.Host = S_empty, "database host is required")
    \o portMessages(config.Port, "database")
    \o Opt(config.User = S_empty, "database user is required")
    \o Opt(config.DBName = S_empty, "database name is required")
    \o Opt(config.MaxConns <= 0, "database max connections must be positive")
    \o Opt(~InList(config.SSLMode, validSSLModes),
           "database SSL mode must be one of: disable, require, verify-ca, verify-full")

\* validateRedis with the numbers 0 and 15 rejected
validateRedis_inside(config) ==
    Opt(config.Host = S_empty, "redis host is required")
    \o portMessages(config.Port, "redis")
    \o Opt(config.DB <= 0 \/ config.DB >= 15,
           "redis database number must be between 0 and 15")

validateRedis(config) ==
    Opt(config.Host = S_empty, "redis host is required")
    \o portMessages(config.Port, "redis")
    \o Opt(config.DB < 0 \/ config.DB > 15,
           "redis database number must be between 0 and 15")

validLevels == <<S_debug, S_info, S_warn, S_warning, S_error, S_fatal, S_panic>>

validFormats == <<S_json, S_text, S_console>>

\* validateLog with the level compared as it is written
validateLog_exact(config) ==
    Opt(~InList(config.Level, validLevels),
        "log level must be one of: debug, info, warn, warning, error, fatal, panic")
    \o Opt(~InList(ToLower(config.Format), validFormats),
           "log format must be one of: json, text, console")

validateLog(config) ==
    Opt(~InList(ToLower(config.Level), validLevels),
        "log level must be one of: debug, info, warn, warning, error, fatal, panic")
    \o Opt(~InList(ToLower(config.Format), validFormats),
           "log format must be one of: json, text, console")

MinSecretLen == 32

\* validateJWT with a secret of any length accepted
validateJWT_anylength(config) ==
    Opt(config.Secret = S_empty, "JWT secret is required")
    \o Opt(config.Expiration <= 0, "JWT expiration must be positive")
    \o Opt(config.Issuer = S_empty, "JWT issuer is required")

\* validateJWT with a secret of exactly MinSecretLen characters rejected
validateJWT_longer(config) ==
    (IF config.Secret = S_empty THEN <<"JWT secret is required">>
     ELSE Opt(Len(config.Secret) <= MinSecretLen,
              "JWT secret must be at least 32 characters long"))
    \o Opt(config.Expiration <= 0, "JWT expiration must be positive")
    \o Opt(config.Issuer = S_empty, "JWT issuer is required")

validateJWT(config) ==
    (IF config.Secret = S_empty THEN <<"JWT secret is required">>
     ELSE Opt(Len(config.Secret) < MinSecretLen,
              "JWT secret must be at least 32 characters long"))
    \o Opt(config.Expiration <= 0, "JWT expiration must be positive")
    \o Opt(config.Issuer = S_empty, "JWT issuer is required")

MaxPort == 65535

\* validateEmail with the rules applied whatever the host is
validateEmail_always(config) ==
    Opt(config.Port <= 0 \/ config.Port > MaxPort,
        "email port must be between 1 and 65535")
    \o Opt(config.Username = S_empty,
           "email username is required when email host is provided")
    \o Opt(config.From = S_empty,
           "email from address is required when email host is provided")

validateEmail(config) ==
    IF config.Host # S_empty
    THEN Opt(config.Port <= 0 \/ config.Port > MaxPort,
             "email port must be between 1 and 65535")
         \o Opt(config.Username = S_empty,
                "email username is required when email host is provided")
         \o Opt(config.From = S_empty,
                "email from address is required when email host is provided")
    ELSE <<>>

validEnvironments == <<S_development, S_staging, S_production, S_test>>

validateApp(config) ==
    Opt(config.Name = S_empty, "application name is required")
    \o Opt(~InList(ToLower(config.Environment), validEnvironments),
           "application environment must be one of: development, staging, production, test")
    \o Opt(config.Version = S_empty, "application version is required")

\* Validator.ValidatePort: the error it returns, <<>> for nil
ValidatePort(port) ==
    IF ~Atoi(port).ok THEN <<"invalid port number: ">> \o port
    ELSE IF Atoi(port).val < 1 \/ Atoi(port).val > MaxPort
    THEN <<"port number must be between 1 and 65535">>
    ELSE <<>>

\* the validate<Section> calls of Validator.Validate, in call order
ValidateOrder == <<"Server", "Database", "Redis", "Log", "JWT", "Email", "App">>

validateSection(sec, config) ==
    CASE sec = "Server" -> validateServer(config.Server)
      [] sec = "Database" -> validateDatabase(config.Database)
      [] sec = "Redis" -> validateRedis(config.Redis)
      [] sec = "Log" -> validateLog(config.Log)
      [] sec = "JWT" -> validateJWT(config.JWT)
      [] sec = "Email" -> validateEmail(config.Email)
      [] sec = "App" -> validateApp(config.App)

\* the messages one undisturbed Validate call collects for a record
RECURSIVE MessagesUpTo(_, _)
MessagesUpTo(config, n) ==
    IF n = 0 THEN <<>>
    ELSE MessagesUpTo(config, n - 1) \o validateSection(ValidateOrder[n], config)

Violations(config) == MessagesUpTo(config, Len(ValidateOrder))

-----------------------------------------------------------------------------
(* Bounds and inputs of the model.                                         *)

\* concurrent callers of one Manager
Callers == {"c1", "c2"}

\* calls of Load or Reload in one behaviour
MaxLoads == 3

\* length of the observer list
MaxWatchers == 2

\* watchers, named after what their OnConfigChanged does
Watchers == {"wReturns", "wBlocks", "wPanics"}

EnvUnset == [k \in EnvKeys |-> S_empty]

EnvOf(port, secret, environment) ==
    [EnvUnset EXCEPT !["SERVER_PORT"] = port, !["JWT_SECRET"] = secret,
                     !["APP_ENVIRONMENT"] = environment]

\* environments a load may find: two valid ones and the bare defaults, whose
\* JWT secret is too short
Envs ==
    {EnvOf(S_8080, S_long_secret, S_empty),
     EnvOf(S_9090, S_long_secret, S_production),
     EnvUnset}

\* a document like the one of TestLoadFromFile, for a production deployment
FileConfig ==
    Config(ServerConfig(S_8080, S_0000, 30 * Second, 30 * Second, 60 * Second),
           DatabaseConfig(S_localhost, S_5432, S_postgres, S_postgres, S_test,
                          S_disable, 10),
           RedisConfig(S_localhost, S_6379, S_empty, 0),
           LogConfig(S_info, S_json, S_empty),
           JWTConfig(S_long_secret, 24 * Hour, S_app),
           EmailConfig(S_empty, 587, S_empty, S_empty, S_empty),
           AppConfig(S_app, S_production, S_version, TRUE))

FileMissing == [kind |-> "missing", cfg |-> ZeroConfig, absent |-> {}]

FileUnparsable == [kind |-> "unparsable", cfg |-> ZeroConfig, absent |-> {}]

FileOk == [kind |-> "ok", cfg |-> FileConfig, absent |-> {}]

Paths == {S_config_yaml, S_alt_yaml}

\* file systems a load may find
FileSystems ==
    {[p \in Paths |-> FileMissing], [p \in Paths |-> FileUnparsable],
     [p \in Paths |-> FileOk]}

\* strategies a caller passes; 3 is no declared LoadStrategy
Strategies == {EnvironmentStrategy, FileStrategy, HybridStrategy, 3}

\* the environments of the runs that race Load with readers
RaceEnvs == {EnvOf(S_8080, S_long_secret, S_empty), EnvUnset}

NoFiles == [p \in Paths |-> FileMissing]

OkFiles == [p \in Paths |-> FileOk]

\* the file systems and environments of the runs with observers: a File
\* load fails, an Environment load finds a valid or an invalid record
ObserverSources ==
    {<<NoFiles, EnvOf(S_8080, S_long_secret, S_empty)>>, <<NoFiles, EnvUnset>>}

\* the caller of the runs with one caller
ObserverCallers == {"c1"}

\* the sources of the runs that reload: a development and a production
\* environment, the file missing or readable
ReloadSources ==
    {<<fs, EnvOf(S_8080, S_long_secret, environment)>> :
        fs \in {NoFiles, OkFiles}, environment \in {S_empty, S_production}}

\* the sources of the runs that compare the strategies: each of the two
\* paths missing, unparsable or readable, CONFIG_PATH unset or naming
\* one of them, the other variables valid
HybridSources ==
    {<<fs, [EnvOf(S_8080, S_long_secret, S_empty) EXCEPT !["CONFIG_PATH"] = path]>> :
        fs \in [Paths -> {FileMissing, FileUnparsable, FileOk}],
        path \in {S_empty} \cup Paths}

\* records allocated in one behaviour of the runs that call the Validator
MaxRecords == 2

\* Validate calls a caller makes one after the other
MaxValidations == 2

\* strings.Repeat of a one-character string
Repeat(ch, n) == [i \in 1..n |-> ch]

\* a record every rule accepts
ValidRecord == LoadFromEnvironment(EnvOf(S_8080, S_long_secret, S_empty))

\* a record with three violations that do not depend on one another: an
\* empty server port, an empty database host, a JWT secret of 5 characters
ThreeViolations ==
    [ValidRecord EXCEPT !.Server.Port = S_empty, !.Database.Host = S_empty,
                        !.JWT.Secret = Repeat("s", 5)]

\* lengths of the JWT secret, numbers of the Redis database and ports of
\* the mail server, on both sides of each limit
SecretLengths == {0, 1, 31, 32, 33}

RedisDBs == {-1, 0, 15, 16}

EmailPorts == {0, 1, 65535, 65536}

\* the records the Validator is called on
ValidatorRecords ==
    {ValidRecord, ThreeViolations, ZeroConfig}
    \cup {[ValidRecord EXCEPT !.JWT.Secret = Repeat("s", n)] : n \in SecretLengths}
    \cup {[ValidRecord EXCEPT !.Redis.DB = n] : n \in RedisDBs}
    \cup {[ValidRecord EXCEPT !.Email = EmailConfig(host, port, user, S_empty, from)] :
             host \in {S_empty, S_localhost}, port \in EmailPorts,
             user \in {S_empty, S_app}, from \in {S_empty, S_app}}

\* variables read with getEnv into fields the Validator wants non-empty
StringKeys ==
    {"SERVER_PORT", "SERVER_HOST", "DB_HOST", "DB_PORT", "DB_USER", "DB_NAME",
     "APP_NAME", "APP_ENVIRONMENT", "APP_VERSION"}

\* variables read with getIntEnv, getBoolEnv and getDurationEnv
IntKeys == {"DB_MAX_CONNS", "REDIS_DB", "EMAIL_PORT"}

BoolKeys == {"APP_DEBUG"}

DurationKeys ==
    {"SERVER_READ_TIMEOUT", "SERVER_WRITE_TIMEOUT", "SERVER_IDLE_TIMEOUT",
     "JWT_EXPIRATION"}

\* values of a typed variable: no number at all, a number followed by
\* letters, an integer, a boolean, a duration
TypedValues ==
    {<<"a", "b", "c">>, <<"1", "2", "a", "b", "c">>, <<"7">>, S_true, <<"5", "s">>}

\* a process environment with which a load from the environment succeeds
BaseProcess ==
    [k \in EnvKeys |-> IF k = "JWT_SECRET" THEN SetTo(S_long_secret) ELSE Unset]

\* the process environments of the runs that load from the environment:
\* nothing set, everything set to the empty string, one string variable set
\* to the empty string or to abc, one typed variable set to each of
\* TypedValues together with LOG_OUTPUT_PATH, which no rule looks at, and
\* JWT_SECRET unset, empty, or of 31 and 32 characters
ProcessEnvs ==
    {BaseProcess, [k \in EnvKeys |-> Unset], [k \in EnvKeys |-> SetTo(S_empty)]}
    \cup {[BaseProcess EXCEPT ![k] = SetTo(v)] :
             k \in StringKeys, v \in {S_empty, <<"a", "b", "c">>}}
    \cup {[BaseProcess EXCEPT ![k] = SetTo(v), !["LOG_OUTPUT_PATH"] = SetTo(v)] :
             k \in IntKeys \cup BoolKeys \cup DurationKeys, v \in TypedValues}
    \cup {[BaseProcess EXCEPT !["JWT_SECRET"] = v] :
             v \in {Unset, SetTo(S_empty), SetTo(Repeat("s", 31)),
                    SetTo(Repeat("s", 32))}}

FileUnbindable == [kind |-> "unbindable", cfg |-> FileConfig, absent |-> {}]

\* the file systems of these runs: config.yaml missing, not a structured
\* document, holding a value of the wrong type, or readable
EnvironmentFiles ==
    {[p \in Paths |-> content] :
        content \in {FileMissing, FileUnparsable, FileUnbindable, FileOk}}

\* spellings of the fields that must lie in a set, inside and outside it
LevelSpellings ==
    {S_info, <<"I", "N", "F", "O">>, <<"W", "a", "r", "n">>,
     <<"v", "e", "r", "b", "o", "s", "e">>, S_empty}

FormatSpellings ==
    {S_json, <<"J", "s", "o", "n">>, <<"T", "E", "X", "T">>, <<"x", "m", "l">>}

EnvironmentSpellings ==
    {S_development, <<"P", "r", "o", "d", "u", "c", "t", "i", "o", "n">>,
     <<"T", "E", "S", "T">>, <<"p", "r", "o", "d">>}

SSLModeSpellings ==
    {S_disable, S_require, S_verify_ca, S_verify_full,
     <<"D", "i", "s", "a", "b", "l", "e">>, <<"R", "E", "Q", "U", "I", "R", "E">>,
     <<"a", "l", "l", "o", "w">>}

\* port strings: integers inside and outside 1..65535, and no integer
PortSpellings ==
    {S_8080, <<"1">>, <<"0">>, <<"6", "5", "5", "3", "5">>,
     <<"6", "5", "5", "3", "6">>, <<"-", "1">>, <<"a", "b", "c">>}

\* the records of the runs that vary spellings and ports, one field of a
\* valid record changed in each
RuleRecords ==
    {[ValidRecord EXCEPT !.Log.Level = v] : v \in LevelSpellings}
    \cup {[ValidRecord EXCEPT !.Log.Format = v] : v \in FormatSpellings}
    \cup {[ValidRecord EXCEPT !.App.Environment = v] : v \in EnvironmentSpellings}
    \cup {[ValidRecord EXCEPT !.Database.SSLMode = v] : v \in SSLModeSpellings}
    \cup {[ValidRecord EXCEPT ![sec].Port = v] :
             sec \in {"Server", "Database", "Redis"}, v \in PortSpellings}

\* LoadStrategy values that are none of the three declared ones
UnknownStrategies == {3, -1}

\* the sources of the runs that compare strategies and spellings: the file
\* missing or readable, APP_ENVIRONMENT unset or naming production or
\* development in several letter cases, the other variables valid; and the
\* bare defaults, which fail validation
StrategySources ==
    {<<fs, EnvOf(S_8080, S_long_secret, environment)>> :
        fs \in {NoFiles, OkFiles},
        environment \in {S_empty, S_production,
                         <<"P", "r", "o", "d", "u", "c", "t", "i", "o", "n">>,
                         <<"D", "E", "V", "E", "L", "O", "P", "M", "E", "N", "T">>}}
    \cup {<<NoFiles, EnvUnset>>}

-----------------------------------------------------------------------------
(* manager.go: the Manager, its callers and the observer goroutines.       *)

VARIABLES
    config,      \* Manager.config: 0 for nil, else the index of a record in heap
    heap,        \* the records the Loader has allocated
    watchers,    \* Manager.watchers
    lockW,       \* the caller holding Manager.mutex exclusively, or "none"
    lockR,       \* the callers holding Manager.mutex shared
    errors,      \* Validator.errors
    pc,          \* each caller's position
    local,       \* each caller's local variables
    goroutines,  \* the goroutines of notifyWatchers that have not returned
    crashed,     \* the process was terminated by an unrecovered panic
    nloads,      \* Load calls so far
    installs     \* history: the records installed, in order

vars == <<config, heap, watchers, lockW, lockR, errors, pc, local, goroutines,
          crashed, nloads, installs>>

NoLocal ==
    [op |-> "", strategy |-> 0, id |-> 0, cfg |-> 0, vi |-> 0, err |-> "",
     old |-> 0, i |-> 0, sent |-> <<>>, res |-> <<>>, w |-> "", from |-> 0,
     pre |-> <<>>, then |-> "", clean |-> TRUE, past |-> <<>>]

\* NewManager
Init ==
    /\ config = 0
    /\ heap = <<>>
    /\ watchers = <<>>
    /\ lockW = "none"
    /\ lockR = {}
    /\ errors = <<>>
    /\ pc = [c \in Callers |-> "idle"]
    /\ local = [c \in Callers |-> NoLocal]
    /\ goroutines = {}
    /\ crashed = FALSE
    /\ nloads = 0
    /\ installs = <<>>

Idle(c) == ~crashed /\ pc[c] = "idle"

At(c, label) == ~crashed /\ pc[c] = label

\* sync.RWMutex
CanLock == lockW = "none" /\ lockR = {}

CanRLock == lockW = "none"

\* what a caller sees of the Manager when it takes the lock
Snapshot == [config |-> config, watchers |-> watchers]

\* Manager.Load, called with a strategy
CallLoad(c, strategy) ==
    /\ Idle(c)
    /\ nloads < MaxLoads
    /\ nloads' = nloads + 1
    /\ pc' = [pc EXCEPT ![c] = "Load_lock"]
    /\ local' = [local EXCEPT ![c] = [NoLocal EXCEPT !.op = "Load",
                                        !.strategy = strategy, !.id = nloads + 1]]
    /\ UNCHANGED <<config, heap, watchers, lockW, lockR, errors, goroutines,
                   crashed, installs>>

\* ReloadStrategy without the test of the current record
ReloadStrategy_env == EnvironmentStrategy

\* the strategy Manager.Reload derives from m.config
ReloadStrategy ==
    IF config # 0 /\ heap[config].App.Environment = S_production
    THEN FileStrategy ELSE EnvironmentStrategy

\* Manager.Reload
CallReload(c) ==
    /\ Idle(c)
    /\ nloads < MaxLoads
    /\ nloads' = nloads + 1
    /\ pc' = [pc EXCEPT ![c] = "Reload_read"]
    /\ local' = [local EXCEPT ![c] = [NoLocal EXCEPT !.op = "Reload",
                                        !.id = nloads + 1]]
    /\ UNCHANGED <<config, heap, watchers, lockW, lockR, errors, goroutines,
                   crashed, installs>>

\* Reload: the test of m.config and of m.config.App.Environment, made
\* before the lock is taken, and the call m.Load(strategy)
Reload_read(c) ==
    /\ At(c, "Reload_read")
    /\ pc' = [pc EXCEPT ![c] = "Load_lock"]
    /\ local' = [local EXCEPT ![c] = [NoLocal EXCEPT !.op = "Load",
                                        !.strategy = ReloadStrategy,
                                        !.id = local[c].id]]
    /\ UNCHANGED <<config, heap, watchers, lockW, lockR, errors, goroutines,
                   crashed, nloads, installs>>

\* Load: m.mutex.Lock()
Load_lock(c) ==
    /\ At(c, "Load_lock")
    /\ CanLock
    /\ lockW' = c
    /\ pc' = [pc EXCEPT ![c] = "Load_fetch"]
    /\ local' = [local EXCEPT ![c].pre = Snapshot]
    /\ UNCHANGED <<config, heap, watchers, lockR, errors, goroutines, crashed,
                   nloads, installs>>

\* Load_fetch with the record published before it is validated
Load_fetch_publish(c, fs, env) ==
    /\ At(c, "Load_fetch")
    /\ LET r == LoaderLoad(local[c].strategy, fs, env) IN
       IF r.err # ""
       THEN /\ local' = [local EXCEPT ![c].err = "failed to load configuration"]
            /\ pc' = [pc EXCEPT ![c] = "Load_unlock"]
            /\ UNCHANGED <<heap, config>>
       ELSE /\ heap' = Append(heap, r.cfg)
            /\ config' = Len(heap) + 1
            /\ local' = [local EXCEPT ![c].cfg = Len(heap) + 1]
            /\ pc' = [pc EXCEPT ![c] = "Validate_reset"]
    /\ UNCHANGED <<watchers, lockW, lockR, errors, goroutines, crashed, nloads,
                   installs>>

\* Load_fetch with the loader's result stored before its error is tested
Load_fetch_nil(c, fs, env) ==
    /\ At(c, "Load_fetch")
    /\ LET r == LoaderLoad(local[c].strategy, fs, env) IN
       IF r.err # ""
       THEN /\ local' = [local EXCEPT ![c].err = "failed to load configuration"]
            /\ pc' = [pc EXCEPT ![c] = "Load_unlock"]
            /\ config' = 0
            /\ heap' = heap
       ELSE /\ heap' = Append(heap, r.cfg)
            /\ config' = config
            /\ local' = [local EXCEPT ![c].cfg = Len(heap) + 1]
            /\ pc' = [pc EXCEPT ![c] = "Validate_reset"]
    /\ UNCHANGED <<watchers, lockW, lockR, errors, goroutines, crashed, nloads,
                   installs>>

\* Load: config, err := m.loader.Load(strategy), in the file system and the
\* environment of that moment
Load_fetch(c, fs, env) ==
    /\ At(c, "Load_fetch")
    /\ LET r == LoaderLoad(local[c].strategy, fs, env) IN
       IF r.err # ""
       THEN /\ local' = [local EXCEPT ![c].err = "failed to load configuration"]
            /\ pc' = [pc EXCEPT ![c] = "Load_unlock"]
            /\ heap' = heap
       ELSE /\ heap' = Append(heap, r.cfg)
            /\ local' = [local EXCEPT ![c].cfg = Len(heap) + 1]
            /\ pc' = [pc EXCEPT ![c] = "Validate_reset"]
    /\ UNCHANGED <<config, watchers, lockW, lockR, errors, goroutines, crashed,
                   nloads, installs>>

\* history: a Validate call under way stops being clean when another call
\* changes v.errors between its reset and its test
Disturbs(c, after) ==
    [d \in Callers |->
        IF d # c /\ pc[d] \in {"Validate_section", "Validate_check"}
           /\ after # errors
        THEN [local[d] EXCEPT !.clean = FALSE]
        ELSE local[d]]

\* Validate_reset with the messages of the call before left in v.errors
Validate_reset_keep(c) ==
    /\ At(c, "Validate_reset")
    /\ errors' = errors
    /\ pc' = [pc EXCEPT ![c] = "Validate_section"]
    /\ local' = [Disturbs(c, <<>>) EXCEPT ![c].vi = 1, ![c].clean = TRUE]
    /\ UNCHANGED <<config, heap, watchers, lockW, lockR, goroutines, crashed,
                   nloads, installs>>

\* Validate: v.errors = make([]string, 0)
Validate_reset(c) ==
    /\ At(c, "Validate_reset")
    /\ errors' = <<>>
    /\ pc' = [pc EXCEPT ![c] = "Validate_section"]
    /\ local' = [Disturbs(c, <<>>) EXCEPT ![c].vi = 1, ![c].clean = TRUE]
    /\ UNCHANGED <<config, heap, watchers, lockW, lockR, goroutines, crashed,
                   nloads, installs>>

\* Validate_section with the sections after the first violation skipped
Validate_section_first(c) ==
    /\ At(c, "Validate_section")
    /\ errors' = IF errors # <<>> THEN errors
                 ELSE validateSection(ValidateOrder[local[c].vi],
                                      heap[local[c].cfg])
    /\ local' = [Disturbs(c, errors') EXCEPT ![c].vi = @ + 1]
    /\ pc' = [pc EXCEPT ![c] = IF local[c].vi = Len(ValidateOrder)
                                THEN "Validate_check" ELSE "Validate_section"]
    /\ UNCHANGED <<config, heap, watchers, lockW, lockR, goroutines, crashed,
                   nloads, installs>>

\* Validate: the next v.validate<Section>(config.<Section>) call
Validate_section(c) ==
    /\ At(c, "Validate_section")
    /\ errors' = errors \o validateSection(ValidateOrder[local[c].vi],
                                           heap[local[c].cfg])
    /\ local' = [Disturbs(c, errors') EXCEPT ![c].vi = @ + 1]
    /\ pc' = [pc EXCEPT ![c] = IF local[c].vi = Len(ValidateOrder)
                                THEN "Validate_check" ELSE "Validate_section"]
    /\ UNCHANGED <<config, heap, watchers, lockW, lockR, goroutines, crashed,
                   nloads, installs>>

\* Validate_check with Load going on after a validation failure
Validate_check_noreturn(c) ==
    /\ At(c, "Validate_check")
    /\ LET failed == Len(errors) > 0 IN
       IF local[c].op = "Load"
       THEN /\ local' = [local EXCEPT ![c].err =
                            IF failed THEN "configuration validation failed" ELSE "",
                                      ![c].res = errors]
            /\ pc' = [pc EXCEPT ![c] = "Load_install"]
       ELSE /\ local' = [local EXCEPT ![c].err =
                            IF failed THEN "ValidationError" ELSE "",
                                      ![c].res = errors]
            /\ pc' = [pc EXCEPT ![c] = IF local[c].op = "Validate"
                                        THEN "Validate_return"
                                        ELSE "ValidateCurrent_return"]
    /\ UNCHANGED <<config, heap, watchers, lockW, lockR, errors, goroutines,
                   crashed, nloads, installs>>

\* Validate: if len(v.errors) > 0 { return &ValidationError{...} }, and the
\* caller's test of the result
Validate_check(c) ==
    /\ At(c, "Validate_check")
    /\ LET failed == Len(errors) > 0 IN
       IF local[c].op = "Load"
       THEN /\ local' = [local EXCEPT ![c].err =
                            IF failed THEN "configuration validation failed" ELSE "",
                                      ![c].res = errors]
            /\ pc' = [pc EXCEPT ![c] = IF failed THEN "Load_unlock" ELSE "Load_install"]
       ELSE /\ local' = [local EXCEPT ![c].err =
                            IF failed THEN "ValidationError" ELSE "",
                                      ![c].res = errors]
            /\ pc' = [pc EXCEPT ![c] = IF local[c].op = "Validate"
                                        THEN "Validate_return"
                                        ELSE "ValidateCurrent_return"]
    /\ UNCHANGED <<config, heap, watchers, lockW, lockR, errors, goroutines,
                   crashed, nloads, installs>>

\* Load_install without the test for an initial load
Load_install_always(c) ==
    /\ At(c, "Load_install")
    /\ config' = local[c].cfg
    /\ installs' = Append(installs, local[c].cfg)
    /\ local' = [local EXCEPT ![c].old = config, ![c].i = 1]
    /\ pc' = [pc EXCEPT ![c] = "Load_notify"]
    /\ UNCHANGED <<heap, watchers, lockW, lockR, errors, goroutines, crashed,
                   nloads>>

\* Load_install with oldConfig read after m.config is assigned
Load_install_late(c) ==
    /\ At(c, "Load_install")
    /\ config' = local[c].cfg
    /\ installs' = Append(installs, local[c].cfg)
    /\ local' = [local EXCEPT ![c].old = local[c].cfg, ![c].i = 1]
    /\ pc' = [pc EXCEPT ![c] = "Load_notify"]
    /\ UNCHANGED <<heap, watchers, lockW, lockR, errors, goroutines, crashed,
                   nloads>>

\* Load: oldConfig := m.config; m.config = config
Load_install(c) ==
    /\ At(c, "Load_install")
    /\ config' = local[c].cfg
    /\ installs' = Append(installs, local[c].cfg)
    /\ local' = [local EXCEPT ![c].old = config, ![c].i = 1]
    /\ pc' = [pc EXCEPT ![c] = IF config # 0 THEN "Load_notify" ELSE "Load_unlock"]
    /\ UNCHANGED <<heap, watchers, lockW, lockR, errors, goroutines, crashed,
                   nloads>>

\* Load_notify with the callback called in place: the loop goes on when
\* the callback has returned
Load_notify_sync(c) ==
    /\ At(c, "Load_notify")
    /\ \A g \in goroutines : g.load # local[c].id
    /\ IF local[c].i <= Len(watchers)
       THEN /\ goroutines' = goroutines \cup
                                {[w |-> watchers[local[c].i], idx |-> local[c].i,
                                  old |-> local[c].old, new |-> local[c].cfg,
                                  load |-> local[c].id, st |-> "ready"]}
            /\ local' = [local EXCEPT ![c].i = @ + 1,
                                      ![c].sent = Append(@, watchers[local[c].i])]
            /\ pc' = pc
       ELSE /\ pc' = [pc EXCEPT ![c] = "Load_unlock"]
            /\ UNCHANGED <<goroutines, local>>
    /\ UNCHANGED <<config, heap, watchers, lockW, lockR, errors, crashed,
                   nloads, installs>>

\* Load_notify calling each distinct observer once
Load_notify_once(c) ==
    /\ At(c, "Load_notify")
    /\ IF local[c].i <= Len(watchers)
       THEN /\ goroutines' =
                  IF \E k \in 1..Len(local[c].sent) :
                        local[c].sent[k] = watchers[local[c].i]
                  THEN goroutines
                  ELSE goroutines \cup
                         {[w |-> watchers[local[c].i], idx |-> local[c].i,
                           old |-> local[c].old, new |-> local[c].cfg,
                           load |-> local[c].id, st |-> "ready"]}
            /\ local' = [local EXCEPT
                           ![c].i = @ + 1,
                           ![c].sent =
                              IF \E k \in 1..Len(@) : @[k] = watchers[local[c].i]
                              THEN @ ELSE Append(@, watchers[local[c].i])]
            /\ pc' = pc
       ELSE /\ pc' = [pc EXCEPT ![c] = "Load_unlock"]
            /\ UNCHANGED <<goroutines, local>>
    /\ UNCHANGED <<config, heap, watchers, lockW, lockR, errors, crashed,
                   nloads, installs>>

\* notifyWatchers: one turn of the loop over m.watchers
Load_notify(c) ==
    /\ At(c, "Load_notify")
    /\ IF local[c].i <= Len(watchers)
       THEN /\ goroutines' = goroutines \cup
                                {[w |-> watchers[local[c].i], idx |-> local[c].i,
                                  old |-> local[c].old, new |-> local[c].cfg,
                                  load |-> local[c].id, st |-> "ready"]}
            /\ local' = [local EXCEPT ![c].i = @ + 1,
                                      ![c].sent = Append(@, watchers[local[c].i])]
            /\ pc' = pc
       ELSE /\ pc' = [pc EXCEPT ![c] = "Load_unlock"]
            /\ UNCHANGED <<goroutines, local>>
    /\ UNCHANGED <<config, heap, watchers, lockW, lockR, errors, crashed,
                   nloads, installs>>

\* Load: the deferred m.mutex.Unlock() and the return
Load_unlock(c) ==
    /\ At(c, "Load_unlock")
    /\ lockW' = "none"
    /\ pc' = [pc EXCEPT ![c] = "idle"]
    /\ local' = [local EXCEPT ![c] = NoLocal]
    /\ UNCHANGED <<config, heap, watchers, lockR, errors, goroutines, crashed,
                   nloads, installs>>

\* the operations that read under the shared lock
CallReader(c, op) ==
    /\ Idle(c)
    /\ pc' = [pc EXCEPT ![c] = "Read_rlock"]
    /\ local' = [local EXCEPT ![c] = [NoLocal EXCEPT !.op = op,
                                        !.from = Len(installs)]]
    /\ UNCHANGED <<config, heap, watchers, lockW, lockR, errors, goroutines,
                   crashed, nloads, installs>>

\* a caller of an accessor that goes on to assign to a field of the value
\* it is given
CallAccessorAndWrite(c, op) ==
    /\ Idle(c)
    /\ pc' = [pc EXCEPT ![c] = "Read_rlock"]
    /\ local' = [local EXCEPT ![c] = [NoLocal EXCEPT !.op = op,
                                        !.from = Len(installs),
                                        !.then = "write"]]
    /\ UNCHANGED <<config, heap, watchers, lockW, lockR, errors, goroutines,
                   crashed, nloads, installs>>

\* Manager.GetConfig
CallGetConfig(c) == CallReader(c, "GetConfig")

\* Manager.GetServerConfig ... Manager.GetAppConfig
CallGetSectionConfig(c, sec) == CallReader(c, sec)

\* Manager.IsLoaded
CallIsLoaded(c) == CallReader(c, "IsLoaded")

\* Manager.GetDatabaseDSN ... Manager.IsDebug
CallHelper(c, op) == CallReader(c, op)

\* Manager.ValidateCurrent
CallValidateCurrent(c) == CallReader(c, "ValidateCurrent")

\* m.mutex.RLock()
Read_rlock(c) ==
    /\ At(c, "Read_rlock")
    /\ CanRLock
    /\ lockR' = lockR \cup {c}
    /\ pc' = [pc EXCEPT ![c] = "Read_body"]
    /\ UNCHANGED <<config, heap, watchers, lockW, errors, local, goroutines,
                   crashed, nloads, installs>>

\* GetDatabaseDSN: the Sprintf over the section GetDatabaseConfig returned
GetDatabaseDSN(db) ==
    <<"h", "o", "s", "t", "=">> \o db.Host \o <<" ", "p", "o", "r", "t", "=">> \o db.Port \o <<" ", "u", "s", "e", "r", "=">> \o db.User
    \o <<" ", "p", "a", "s", "s", "w", "o", "r", "d", "=">> \o db.Password \o <<" ", "d", "b", "n", "a", "m", "e", "=">> \o db.DBName
    \o <<" ", "s", "s", "l", "m", "o", "d", "e", "=">> \o db.SSLMode

\* GetRedisAddr: the Sprintf over the section GetRedisConfig returned
GetRedisAddr(redis) == redis.Host \o <<":">> \o redis.Port

\* GetServerAddr: the Sprintf over the section GetServerConfig returned
GetServerAddr(server) == server.Host \o <<":">> \o server.Port

IsDevelopment(app) == app.Environment = S_development

IsProduction(app) == app.Environment = S_production

IsDebug(app) == app.Debug

\* the derived helpers, and the section accessor each of them calls
Helpers ==
    {"GetDatabaseDSN", "GetRedisAddr", "GetServerAddr", "IsDevelopment",
     "IsProduction", "IsDebug"}

HelperSection(op) ==
    CASE op = "GetDatabaseDSN" -> "Database"
      [] op = "GetRedisAddr" -> "Redis"
      [] op = "GetServerAddr" -> "Server"
      [] OTHER -> "App"

HelperResult(op, section) ==
    CASE op = "GetDatabaseDSN" -> GetDatabaseDSN(section)
      [] op = "GetRedisAddr" -> GetRedisAddr(section)
      [] op = "GetServerAddr" -> GetServerAddr(section)
      [] op = "IsDevelopment" -> IsDevelopment(section)
      [] op = "IsProduction" -> IsProduction(section)
      [] OTHER -> IsDebug(section)

\* the built-in defaults of the Loader
DefaultConfig == LoadFromEnvironment(EnvUnset)

\* ReadResult with the helpers working on the record installed first
ReadResult_first(op, p) ==
    IF op = "GetConfig" THEN p
    ELSE IF op = "IsLoaded" THEN p # 0
    ELSE IF op \in Helpers
    THEN HelperResult(op, IF p = 0 THEN ZeroConfig[HelperSection(op)]
                          ELSE heap[installs[1]][HelperSection(op)])
    ELSE IF p = 0 THEN ZeroConfig[op]
    ELSE heap[p][op]

\* ReadResult with an unloaded Manager answering from the defaults of the
\* Loader
ReadResult_defaults(op, p) ==
    IF op = "GetConfig" THEN p
    ELSE IF op = "IsLoaded" THEN p # 0
    ELSE IF op \in Helpers
    THEN HelperResult(op, IF p = 0 THEN DefaultConfig[HelperSection(op)]
                          ELSE heap[p][HelperSection(op)])
    ELSE IF p = 0 THEN DefaultConfig[op]
    ELSE heap[p][op]

\* what an accessor returns for the record it finds in m.config; a helper
\* works on the section its accessor returned
ReadResult(op, p) ==
    IF op = "GetConfig" THEN p
    ELSE IF op = "IsLoaded" THEN p # 0
    ELSE IF op \in Helpers
    THEN HelperResult(op, IF p = 0 THEN ZeroConfig[HelperSection(op)]
                          ELSE heap[p][HelperSection(op)])
    ELSE IF p = 0 THEN ZeroConfig[op]
    ELSE heap[p][op]

\* the body of an accessor, under the shared lock
Read_body(c) ==
    /\ At(c, "Read_body")
    /\ local' = [local EXCEPT ![c].cfg = config,
                              ![c].res = IF local[c].op = "ValidateCurrent" THEN <<>>
                                         ELSE ReadResult(local[c].op, config)]
    /\ pc' = [pc EXCEPT ![c] = "Read_runlock"]
    /\ UNCHANGED <<config, heap, watchers, lockW, lockR, errors, goroutines,
                   crashed, nloads, installs>>

\* Read_runlock with ValidateCurrent reporting a missing record as a
\* validation failure
Read_runlock_sameerror(c) ==
    /\ At(c, "Read_runlock")
    /\ lockR' = lockR \ {c}
    /\ IF local[c].op # "ValidateCurrent" /\ local[c].then = "write"
       THEN /\ pc' = [pc EXCEPT ![c] = "Caller_write"]
            /\ local' = local
       ELSE IF local[c].op # "ValidateCurrent"
       THEN /\ pc' = [pc EXCEPT ![c] = "idle"]
            /\ local' = [local EXCEPT ![c] = NoLocal]
       ELSE IF local[c].cfg = 0
       THEN /\ pc' = [pc EXCEPT ![c] = "ValidateCurrent_return"]
            /\ local' = [local EXCEPT ![c].err = "ValidationError"]
       ELSE /\ pc' = [pc EXCEPT ![c] = "Validate_reset"]
            /\ local' = local
    /\ UNCHANGED <<config, heap, watchers, lockW, errors, goroutines, crashed,
                   nloads, installs>>

\* m.mutex.RUnlock(); the accessors return, ValidateCurrent goes on
Read_runlock(c) ==
    /\ At(c, "Read_runlock")
    /\ lockR' = lockR \ {c}
    /\ IF local[c].op # "ValidateCurrent" /\ local[c].then = "write"
       THEN /\ pc' = [pc EXCEPT ![c] = "Caller_write"]
            /\ local' = local
       ELSE IF local[c].op # "ValidateCurrent"
       THEN /\ pc' = [pc EXCEPT ![c] = "idle"]
            /\ local' = [local EXCEPT ![c] = NoLocal]
       ELSE IF local[c].cfg = 0
       THEN /\ pc' = [pc EXCEPT ![c] = "ValidateCurrent_return"]
            /\ local' = [local EXCEPT ![c].err = "no configuration loaded"]
       ELSE /\ pc' = [pc EXCEPT ![c] = "Validate_reset"]
            /\ local' = local
    /\ UNCHANGED <<config, heap, watchers, lockW, errors, goroutines, crashed,
                   nloads, installs>>

\* the caller assigns to Server.Port of what it was given: GetConfig gave it
\* m.config itself, a *Config, so the assignment lands in the installed
\* record; a Get<Section>Config gave it a struct by value, so the
\* assignment lands in the caller's own copy
Caller_write(c) ==
    /\ At(c, "Caller_write")
    /\ heap' = IF local[c].op = "GetConfig" /\ local[c].res # 0
               THEN [heap EXCEPT ![local[c].res].Server.Port = S_9090]
               ELSE heap
    /\ pc' = [pc EXCEPT ![c] = "idle"]
    /\ local' = [local EXCEPT ![c] = NoLocal]
    /\ UNCHANGED <<config, watchers, lockW, lockR, errors, goroutines, crashed,
                   nloads, installs>>

\* ValidateCurrent returns
ValidateCurrent_return(c) ==
    /\ At(c, "ValidateCurrent_return")
    /\ pc' = [pc EXCEPT ![c] = "idle"]
    /\ local' = [local EXCEPT ![c] = NoLocal]
    /\ UNCHANGED <<config, heap, watchers, lockW, lockR, errors, goroutines,
                   crashed, nloads, installs>>

\* Validator.Validate called on a record the caller built, as TestValidator
\* does: a new record, or once more the record of the caller's call before.
\* History: past keeps the results of the Validate calls the caller made
\* one after the other.
CallValidate(c, record) ==
    LET past == local[c].past
        again == past # <<>> /\ heap[past[Len(past)].cfg] = record
    IN /\ Idle(c)
       /\ Len(past) < MaxValidations
       /\ again \/ Len(heap) < MaxRecords
       /\ heap' = IF again THEN heap ELSE Append(heap, record)
       /\ pc' = [pc EXCEPT ![c] = "Validate_reset"]
       /\ local' = [local EXCEPT ![c] =
                       [NoLocal EXCEPT !.op = "Validate",
                                       !.cfg = IF again THEN past[Len(past)].cfg
                                               ELSE Len(heap) + 1,
                                       !.past = past]]
       /\ UNCHANGED <<config, watchers, lockW, lockR, errors, goroutines,
                      crashed, nloads, installs>>

\* Validate returns to the caller that called it on its own record
Validate_return(c) ==
    /\ At(c, "Validate_return")
    /\ pc' = [pc EXCEPT ![c] = "idle"]
    /\ local' = [local EXCEPT ![c] =
                    [NoLocal EXCEPT !.past =
                        Append(local[c].past,
                               [cfg |-> local[c].cfg, err |-> local[c].err,
                                res |-> local[c].res])]]
    /\ UNCHANGED <<config, heap, watchers, lockW, lockR, errors, goroutines,
                   crashed, nloads, installs>>

\* Manager.AddWatcher
CallAddWatcher(c, w) ==
    /\ Idle(c)
    /\ Len(watchers) < MaxWatchers
    /\ pc' = [pc EXCEPT ![c] = "Watcher_lock"]
    /\ local' = [local EXCEPT ![c] = [NoLocal EXCEPT !.op = "AddWatcher", !.w = w]]
    /\ UNCHANGED <<config, heap, watchers, lockW, lockR, errors, goroutines,
                   crashed, nloads, installs>>

\* Manager.RemoveWatcher
CallRemoveWatcher(c, w) ==
    /\ Idle(c)
    /\ pc' = [pc EXCEPT ![c] = "Watcher_lock"]
    /\ local' = [local EXCEPT ![c] = [NoLocal EXCEPT !.op = "RemoveWatcher", !.w = w]]
    /\ UNCHANGED <<config, heap, watchers, lockW, lockR, errors, goroutines,
                   crashed, nloads, installs>>

\* Watcher_lock taking the lock as a reader would
Watcher_lock_shared(c) ==
    /\ At(c, "Watcher_lock")
    /\ CanRLock
    /\ lockW' = c
    /\ pc' = [pc EXCEPT ![c] = "Watcher_body"]
    /\ local' = [local EXCEPT ![c].pre = Snapshot]
    /\ UNCHANGED <<config, heap, watchers, lockR, errors, goroutines, crashed,
                   nloads, installs>>

\* AddWatcher, RemoveWatcher: m.mutex.Lock()
Watcher_lock(c) ==
    /\ At(c, "Watcher_lock")
    /\ CanLock
    /\ lockW' = c
    /\ pc' = [pc EXCEPT ![c] = "Watcher_body"]
    /\ local' = [local EXCEPT ![c].pre = Snapshot]
    /\ UNCHANGED <<config, heap, watchers, lockR, errors, goroutines, crashed,
                   nloads, installs>>

\* the list without its element at index i
RemoveAt(list, i) == SubSeq(list, 1, i - 1) \o SubSeq(list, i + 1, Len(list))

\* RemoveFirst dropping every entry equal to w
RemoveFirst_all(list, w) == SelectSeq(list, LAMBDA x : x # w)

\* RemoveWatcher's loop: drop the first entry equal to w, if any
RemoveFirst(list, w) ==
    IF \E i \in 1..Len(list) : list[i] = w
    THEN RemoveAt(list, CHOOSE i \in 1..Len(list) :
                          list[i] = w /\ \A j \in 1..(i - 1) : list[j] # w)
    ELSE list

\* AddWatcher, RemoveWatcher: the change of m.watchers and the deferred Unlock
Watcher_body(c) ==
    /\ At(c, "Watcher_body")
    /\ watchers' = IF local[c].op = "AddWatcher" THEN Append(watchers, local[c].w)
                   ELSE RemoveFirst(watchers, local[c].w)
    /\ lockW' = "none"
    /\ pc' = [pc EXCEPT ![c] = "idle"]
    /\ local' = [local EXCEPT ![c] = NoLocal]
    /\ UNCHANGED <<config, heap, lockR, errors, goroutines, crashed, nloads,
                   installs>>

\* a goroutine of notifyWatchers is scheduled: w.OnConfigChanged begins
Observer_start(g) ==
    /\ ~crashed
    /\ g.st = "ready"
    /\ goroutines' = (goroutines \ {g}) \cup {[g EXCEPT !.st = "running"]}
    /\ UNCHANGED <<config, heap, watchers, lockW, lockR, errors, pc, local,
                   crashed, nloads, installs>>

\* OnConfigChanged returns and the goroutine ends
Observer_return(g) ==
    /\ ~crashed
    /\ g.st = "running"
    /\ g.w = "wReturns"
    /\ goroutines' = goroutines \ {g}
    /\ UNCHANGED <<config, heap, watchers, lockW, lockR, errors, pc, local,
                   crashed, nloads, installs>>

\* OnConfigChanged panics: nothing in the goroutine recovers, and an
\* unrecovered panic ends the process
Observer_panic(g) ==
    /\ ~crashed
    /\ g.st = "running"
    /\ g.w = "wPanics"
    /\ goroutines' = (goroutines \ {g}) \cup {[g EXCEPT !.st = "panicked"]}
    /\ crashed' = TRUE
    /\ UNCHANGED <<config, heap, watchers, lockW, lockR, errors, pc, local,
                   nloads, installs>>

\* a call made from inside OnConfigChanged: the observer wCalls calls the
\* Manager from its callback, so the call begins while a goroutine of
\* notifyWatchers is running that callback
FromCallback(call) ==
    /\ \E g \in goroutines : g.w = "wCalls" /\ g.st = "running"
    /\ call

\* OnConfigChanged of wCalls returns, no call of its own being under way on
\* the caller c that stands for its goroutine, and the goroutine ends
Callback_return(g, c) ==
    /\ ~crashed
    /\ g.st = "running"
    /\ g.w = "wCalls"
    /\ pc[c] = "idle"
    /\ goroutines' = goroutines \ {g}
    /\ UNCHANGED <<config, heap, watchers, lockW, lockR, errors, pc, local,
                   crashed, nloads, installs>>

\* every operation, by every caller, on every input
Next ==
    \/ \E c \in Callers :
         \/ \E s \in Strategies : CallLoad(c, s)
         \/ CallReload(c)
         \/ Reload_read(c)
         \/ Load_lock(c)
         \/ \E fs \in FileSystems, env \in Envs : Load_fetch(c, fs, env)
         \/ Validate_reset(c)
         \/ Validate_section(c)
         \/ Validate_check(c)
         \/ Load_install(c)
         \/ Load_notify(c)
         \/ Load_unlock(c)
         \/ CallGetConfig(c)
         \/ \E sec \in Sections : CallGetSectionConfig(c, sec)
         \/ CallIsLoaded(c)
         \/ CallValidateCurrent(c)
         \/ \E op \in Helpers : CallHelper(c, op)
         \/ Read_rlock(c)
         \/ Read_body(c)
         \/ Read_runlock(c)
         \/ ValidateCurrent_return(c)
         \/ \E record \in ValidatorRecords : CallValidate(c, record)
         \/ Validate_return(c)
         \/ \E op \in {"GetConfig"} \cup Sections : CallAccessorAndWrite(c, op)
         \/ Caller_write(c)
         \/ \E w \in Watchers : CallAddWatcher(c, w)
         \/ \E w \in Watchers : CallRemoveWatcher(c, w)
         \/ Watcher_lock(c)
         \/ Watcher_body(c)
    \/ \E g \in goroutines :
         \/ Observer_start(g)
         \/ Observer_return(g)
         \/ Observer_panic(g)
         \/ \E c \in Callers : Callback_return(g, c)

Spec == Init /\ [][Next]_vars

\* the steps of a Load or Reload under way, but for the fetch
LoadStep(c) ==
    \/ Load_lock(c)
    \/ Validate_reset(c)
    \/ Validate_section(c)
    \/ Validate_check(c)
    \/ Load_install(c)
    \/ Load_notify(c)
    \/ Load_unlock(c)

\* Loads racing with readers and ValidateCurrent: the environment is valid
\* or left at its defaults, no watcher is registered
NextReaders ==
    \E c \in Callers :
       \/ CallLoad(c, EnvironmentStrategy)
       \/ CallReload(c)
       \/ Reload_read(c)
       \/ \E env \in RaceEnvs : Load_fetch(c, NoFiles, env)
       \/ LoadStep(c)
       \/ CallGetConfig(c)
       \/ CallGetSectionConfig(c, "Server")
       \/ CallValidateCurrent(c)
       \/ Read_rlock(c)
       \/ Read_body(c)
       \/ Read_runlock(c)
       \/ ValidateCurrent_return(c)

SpecReaders == Init /\ [][NextReaders]_vars

\* one caller that loads, reloads and changes the observer list, with the
\* goroutines of the observers, which return, block or panic
NextObservers ==
    \/ \E c \in ObserverCallers :
         \/ \E s \in {EnvironmentStrategy, FileStrategy} : CallLoad(c, s)
         \/ CallReload(c)
         \/ Reload_read(c)
         \/ \E src \in ObserverSources : Load_fetch(c, src[1], src[2])
         \/ LoadStep(c)
         \/ \E w \in Watchers : CallAddWatcher(c, w)
         \/ \E w \in Watchers : CallRemoveWatcher(c, w)
         \/ Watcher_lock(c)
         \/ Watcher_body(c)
    \/ \E g \in goroutines :
         \/ Observer_start(g)
         \/ Observer_return(g)
         \/ Observer_panic(g)

SpecObservers == Init /\ [][NextObservers]_vars

\* concurrent callers that load, reload and register a returning observer
NextLoaders ==
    \/ \E c \in Callers :
         \/ \E s \in {EnvironmentStrategy, FileStrategy} : CallLoad(c, s)
         \/ CallReload(c)
         \/ Reload_read(c)
         \/ \E src \in ObserverSources : Load_fetch(c, src[1], src[2])
         \/ LoadStep(c)
         \/ CallAddWatcher(c, "wReturns")
         \/ CallRemoveWatcher(c, "wReturns")
         \/ Watcher_lock(c)
         \/ Watcher_body(c)
    \/ \E g \in goroutines :
         \/ Observer_start(g)
         \/ Observer_return(g)

SpecLoaders == Init /\ [][NextLoaders]_vars

\* the environment of the runs whose loads all succeed
ValidEnv == EnvOf(S_8080, S_long_secret, S_empty)

\* callers that load, read the whole record or a section of it, and assign
\* to what they were given
NextAccessors ==
    \E c \in Callers :
       \/ CallLoad(c, EnvironmentStrategy)
       \/ Load_fetch(c, NoFiles, ValidEnv)
       \/ LoadStep(c)
       \/ CallGetSectionConfig(c, "Server")
       \/ CallAccessorAndWrite(c, "GetConfig")
       \/ CallAccessorAndWrite(c, "Server")
       \/ Read_rlock(c)
       \/ Read_body(c)
       \/ Read_runlock(c)
       \/ Caller_write(c)

SpecAccessors == Init /\ [][NextAccessors]_vars

\* callers that load, with a valid environment or the bare defaults, and
\* call every section accessor, IsLoaded and every derived helper
NextHelpers ==
    \E c \in Callers :
       \/ CallLoad(c, EnvironmentStrategy)
       \/ \E env \in RaceEnvs : Load_fetch(c, NoFiles, env)
       \/ LoadStep(c)
       \/ \E sec \in Sections : CallGetSectionConfig(c, sec)
       \/ CallIsLoaded(c)
       \/ \E op \in Helpers : CallHelper(c, op)
       \/ Read_rlock(c)
       \/ Read_body(c)
       \/ Read_runlock(c)

SpecHelpers == Init /\ [][NextHelpers]_vars

\* the caller that changes the Manager, and the one that reads it, in the
\* runs that use every operation
Writer == "c1"

Reader == "c2"

\* every operation of the Manager, one caller changing it and one reading
\* it: loads that succeed (Environment), loads that fail (File, no file),
\* reloads, changes of the observer list, accessors and ValidateCurrent
NextLifecycle ==
    \/ \E s \in {EnvironmentStrategy, FileStrategy} : CallLoad(Writer, s)
    \/ CallReload(Writer)
    \/ Reload_read(Writer)
    \/ Load_fetch(Writer, NoFiles, ValidEnv)
    \/ LoadStep(Writer)
    \/ CallAddWatcher(Writer, "wReturns")
    \/ CallRemoveWatcher(Writer, "wReturns")
    \/ Watcher_lock(Writer)
    \/ Watcher_body(Writer)
    \/ CallGetConfig(Reader)
    \/ CallIsLoaded(Reader)
    \/ CallValidateCurrent(Reader)
    \/ Read_rlock(Reader)
    \/ Read_body(Reader)
    \/ Read_runlock(Reader)
    \/ Validate_reset(Reader)
    \/ Validate_section(Reader)
    \/ Validate_check(Reader)
    \/ ValidateCurrent_return(Reader)
    \/ \E g \in goroutines :
         \/ Observer_start(g)
         \/ Observer_return(g)

SpecLifecycle == Init /\ [][NextLifecycle]_vars

\* concurrent callers that take the lock in both modes: loads, changes of
\* the observer list and readers; the goroutines of the observers, which
\* take no lock, are not scheduled in these runs
NextLocks ==
    \E c \in Callers :
       \/ CallLoad(c, EnvironmentStrategy)
       \/ Load_fetch(c, NoFiles, ValidEnv)
       \/ LoadStep(c)
       \/ CallAddWatcher(c, "wReturns")
       \/ CallRemoveWatcher(c, "wReturns")
       \/ Watcher_lock(c)
       \/ Watcher_body(c)
       \/ CallIsLoaded(c)
       \/ CallGetSectionConfig(c, "App")
       \/ Read_rlock(c)
       \/ Read_body(c)
       \/ Read_runlock(c)

SpecLocks == Init /\ [][NextLocks]_vars

\* one caller that loads with the Hybrid and the File strategy from every
\* source of HybridSources
NextHybrid ==
    \E c \in ObserverCallers :
       \/ \E s \in {HybridStrategy, FileStrategy} : CallLoad(c, s)
       \/ \E src \in HybridSources : Load_fetch(c, src[1], src[2])
       \/ LoadStep(c)

SpecHybrid == Init /\ [][NextHybrid]_vars

\* one caller that loads from the environment, reloads and registers an
\* observer that returns
NextReload ==
    \/ \E c \in ObserverCallers :
         \/ CallLoad(c, EnvironmentStrategy)
         \/ CallReload(c)
         \/ Reload_read(c)
         \/ \E src \in ReloadSources : Load_fetch(c, src[1], src[2])
         \/ LoadStep(c)
         \/ CallAddWatcher(c, "wReturns")
         \/ Watcher_lock(c)
         \/ Watcher_body(c)
    \/ \E g \in goroutines :
         \/ Observer_start(g)
         \/ Observer_return(g)

SpecReload == Init /\ [][NextReload]_vars

\* one caller that calls the Validator on records of its own, loads a valid
\* record, registers an observer and calls ValidateCurrent
NextValidator ==
    \E c \in ObserverCallers :
       \/ \E record \in ValidatorRecords : CallValidate(c, record)
       \/ Validate_reset(c)
       \/ Validate_section(c)
       \/ Validate_check(c)
       \/ Validate_return(c)
       \/ Len(heap) < MaxRecords /\ CallLoad(c, EnvironmentStrategy)
       \/ Load_lock(c)
       \/ Load_fetch(c, NoFiles, ValidEnv)
       \/ Load_install(c)
       \/ Load_notify(c)
       \/ Load_unlock(c)
       \/ CallAddWatcher(c, "wReturns")
       \/ Watcher_lock(c)
       \/ Watcher_body(c)
       \/ CallValidateCurrent(c)
       \/ Read_rlock(c)
       \/ Read_body(c)
       \/ Read_runlock(c)
       \/ ValidateCurrent_return(c)

SpecValidator == Init /\ [][NextValidator]_vars

\* one caller that loads with the Environment and the File strategy from
\* every process environment of ProcessEnvs
NextEnvironment ==
    \E c \in ObserverCallers :
       \/ Len(heap) < MaxRecords
          /\ \E s \in {EnvironmentStrategy, FileStrategy} : CallLoad(c, s)
       \/ \E fs \in EnvironmentFiles, process \in ProcessEnvs :
             Load_fetch(c, fs, Getenv(process))
       \/ LoadStep(c)

SpecEnvironment == Init /\ [][NextEnvironment]_vars

\* one caller that loads with the Environment strategy and with values
\* that are no declared strategy, reloads, asks IsProduction and
\* IsDevelopment and registers an observer that returns
NextStrategies ==
    \/ \E c \in ObserverCallers :
         \/ \E s \in {EnvironmentStrategy} \cup UnknownStrategies : CallLoad(c, s)
         \/ CallReload(c)
         \/ Reload_read(c)
         \/ \E src \in StrategySources : Load_fetch(c, src[1], src[2])
         \/ LoadStep(c)
         \/ CallHelper(c, "IsProduction")
         \/ CallHelper(c, "IsDevelopment")
         \/ Read_rlock(c)
         \/ Read_body(c)
         \/ Read_runlock(c)
         \/ CallAddWatcher(c, "wReturns")
         \/ Watcher_lock(c)
         \/ Watcher_body(c)
    \/ \E g \in goroutines :
         \/ Observer_start(g)
         \/ Observer_return(g)

SpecStrategies == Init /\ [][NextStrategies]_vars

\* one caller that calls the Validator on the records of RuleRecords
NextRules ==
    \E c \in ObserverCallers :
       \/ \E record \in RuleRecords : CallValidate(c, record)
       \/ Validate_reset(c)
       \/ Validate_section(c)
       \/ Validate_check(c)
       \/ Validate_return(c)

SpecRules == Init /\ [][NextRules]_vars

\* one caller that loads two valid records in turn and registers an
\* observer, and one that calls every accessor and helper meanwhile
NextReadOnly ==
    \/ CallLoad(Writer, EnvironmentStrategy)
    \/ \E env \in {ValidEnv, EnvOf(S_9090, S_long_secret, S_production)} :
          Load_fetch(Writer, NoFiles, env)
    \/ LoadStep(Writer)
    \/ CallAddWatcher(Writer, "wReturns")
    \/ Watcher_lock(Writer)
    \/ Watcher_body(Writer)
    \/ CallGetConfig(Reader)
    \/ \E sec \in Sections : CallGetSectionConfig(Reader, sec)
    \/ CallIsLoaded(Reader)
    \/ \E op \in Helpers : CallHelper(Reader, op)
    \/ Read_rlock(Reader)
    \/ Read_body(Reader)
    \/ Read_runlock(Reader)
    \/ \E g \in goroutines :
         \/ Observer_start(g)
         \/ Observer_return(g)

SpecReadOnly == Init /\ [][NextReadOnly]_vars

\* the steps the scheduler owes a caller whose call is under way
Progress(c) ==
    \/ Reload_read(c)
    \/ \E src \in ObserverSources : Load_fetch(c, src[1], src[2])
    \/ LoadStep(c)
    \/ Watcher_lock(c)
    \/ Watcher_body(c)
    \/ Read_rlock(c)
    \/ Read_body(c)
    \/ Read_runlock(c)

\* one caller that loads, reloads, reads and registers observers that
\* return or block for ever
NextBlocking ==
    \/ \E c \in ObserverCallers :
         \/ CallLoad(c, EnvironmentStrategy)
         \/ CallReload(c)
         \/ CallGetConfig(c)
         \/ \E w \in {"wReturns", "wBlocks"} : CallAddWatcher(c, w)
         \/ Progress(c)
    \/ \E g \in goroutines :
         \/ Observer_start(g)
         \/ Observer_return(g)

\* the caller of the main goroutine, and the caller that stands for the
\* goroutine of a callback, in the runs with an observer that calls the
\* Manager
MainCaller == "c1"

CallbackCaller == "c2"

\* a main goroutine that loads and registers the observer wCalls,
\* whose callback calls Load, Reload, AddWatcher, RemoveWatcher and
\* GetConfig on the same Manager
NextCallbacks ==
    \/ CallLoad(MainCaller, EnvironmentStrategy)
    \/ CallAddWatcher(MainCaller, "wCalls")
    \/ FromCallback(CallLoad(CallbackCaller, EnvironmentStrategy))
    \/ FromCallback(CallReload(CallbackCaller))
    \/ FromCallback(CallAddWatcher(CallbackCaller, "wCalls"))
    \/ FromCallback(CallRemoveWatcher(CallbackCaller, "wCalls"))
    \/ FromCallback(CallGetConfig(CallbackCaller))
    \/ \E c \in Callers : Progress(c)
    \/ \E g \in goroutines :
         \/ Observer_start(g)
         \/ Callback_return(g, CallbackCaller)

\* the scheduler runs every runnable goroutine in the end, and
\* sync.RWMutex starves nobody: a waiting writer holds back new readers
\* and the readers waiting at an Unlock are let in before the next writer,
\* so a caller that finds the lock free again and again is let in
FairCallbacks ==
    /\ Init
    /\ [][NextCallbacks]_vars
    /\ \A c \in Callers :
          /\ WF_vars(Progress(c))
          /\ SF_vars(Load_lock(c))
          /\ SF_vars(Watcher_lock(c))
          /\ SF_vars(Read_rlock(c))
    /\ WF_vars(\E g \in goroutines : Observer_start(g))

\* the Go scheduler runs every runnable goroutine in the end: a call under
\* way takes its next step, a started goroutine runs its callback, a
\* callback that returns does return
FairObservers ==
    /\ Init
    /\ [][NextBlocking]_vars
    /\ \A c \in ObserverCallers : WF_vars(Progress(c))
    /\ WF_vars(\E g \in goroutines : Observer_start(g))
    /\ WF_vars(\E g \in goroutines : Observer_return(g))

-----------------------------------------------------------------------------
(* The claims.                                                             *)

InLoad(c) ==
    /\ local[c].op = "Load"
    /\ pc[c] \in {"Load_fetch", "Validate_reset", "Validate_section",
                  "Validate_check", "Load_install", "Load_notify", "Load_unlock"}

\* the goroutines started by the Load with this id
GoroutinesOf(id) == {g \in goroutines : g.load = id}

\* C1: in every reachable state the current record, if any, violates no
\* validation rule, whatever the interleaving of Load and ValidateCurrent.
C1_CurrentRecordIsValid ==
    config # 0 => Violations(heap[config]) = <<>>

\* C2: a Load whose validation failed returns with the current record and
\* the observer list as it found them and has started no observer.
C2_ValidationFailureLeavesState ==
    \A c \in Callers :
       (pc[c] = "Load_unlock" /\ local[c].err = "configuration validation failed")
       => /\ config = local[c].pre.config
          /\ watchers = local[c].pre.watchers
          /\ local[c].sent = <<>>
          /\ GoroutinesOf(local[c].id) = {}

C2_Witness ==
    \E c \in Callers :
       /\ pc[c] = "Load_unlock"
       /\ local[c].err = "configuration validation failed"
       /\ config # 0
       /\ watchers # <<>>

\* C3: a Load whose Loader failed returns with the current record, IsLoaded
\* and the observer list as it found them and has started no observer.
C3_LoaderFailureLeavesState ==
    \A c \in Callers :
       (pc[c] = "Load_unlock" /\ local[c].err = "failed to load configuration")
       => /\ config = local[c].pre.config
          /\ (config # 0) = (local[c].pre.config # 0)
          /\ watchers = local[c].pre.watchers
          /\ local[c].cfg = 0
          /\ local[c].sent = <<>>
          /\ GoroutinesOf(local[c].id) = {}

C3_Witness ==
    \E c \in Callers :
       /\ pc[c] = "Load_unlock"
       /\ local[c].err = "failed to load configuration"
       /\ local[c].strategy = FileStrategy
       /\ config # 0
       /\ watchers # <<>>

\* C4: what GetConfig or Get<Section>Config returns is, whole, the record
\* that was current when the call began or one installed since by a Load
\* that succeeded (the zero value if there was none), never a record a
\* failed Load fetched.
C4_AtomicReplace ==
    \A c \in Callers :
       (pc[c] = "Read_runlock" /\ local[c].op \in {"GetConfig"} \cup Sections)
       => LET p == local[c].cfg IN
          /\ p = 0 => local[c].from = 0
          /\ p # 0 => \E k \in 1..Len(installs) :
                         installs[k] = p /\ k >= local[c].from
          /\ local[c].res = ReadResult(local[c].op, p)

C4_Witness ==
    \E c \in Callers :
       /\ pc[c] = "Read_runlock"
       /\ local[c].op = "Server"
       /\ local[c].from >= 1
       /\ installs[local[c].from] # local[c].cfg
       /\ \E q \in 1..Len(heap) :
             /\ Violations(heap[q]) # <<>>
             /\ \A d \in Callers : local[d].cfg # q

\* C5: when a Load returns, it has dispatched one observer call for each
\* entry of the observer list, in order, if it succeeded and replaced a
\* record, and none if it failed or was the first to install a record.
C5_ObserverFiring ==
    \A c \in Callers :
       pc[c] = "Load_unlock"
       => /\ local[c].sent = IF local[c].err = "" /\ local[c].old # 0
                             THEN watchers ELSE <<>>
          /\ \A g \in GoroutinesOf(local[c].id) :
                g.idx \in 1..Len(local[c].sent) /\ local[c].sent[g.idx] = g.w

C5_Witness ==
    \E c \in Callers :
       /\ pc[c] = "Load_unlock"
       /\ local[c].err = ""
       /\ local[c].old # 0
       /\ Len(watchers) = MaxWatchers
       /\ Cardinality(GoroutinesOf(local[c].id)) = MaxWatchers

\* C6: every observer call gets a non-nil previous record, which is the one
\* installed just before its current record; no record is installed twice,
\* so the previous record of one reload is the current one of the reload
\* before.
C6_ObserverArguments ==
    /\ \A g \in goroutines :
          /\ g.old # 0
          /\ \E k \in 2..Len(installs) :
                installs[k] = g.new /\ installs[k - 1] = g.old
    /\ \A j, k \in 1..Len(installs) : installs[j] = installs[k] => j = k

C6_Witness ==
    \E g, h \in goroutines :
       /\ g.load < h.load
       /\ h.old = g.new
       /\ \E c, d \in Callers :
             c # d /\ InLoad(c) /\ local[c].id = h.load /\ pc[d] = "Watcher_lock"

\* C7: Load does not hold the exclusive lock while the Loader fetches the
\* source or while the Validator runs.
C7_NoLockAcrossFetchAndValidate ==
    \A c \in Callers :
       (local[c].op = "Load"
        /\ pc[c] \in {"Load_fetch", "Validate_reset", "Validate_section",
                      "Validate_check"})
       => lockW # c

\* C8: no observer callback of a reload runs while the Load that started it
\* still holds the exclusive lock.
C8_ObserversRunAfterUnlock ==
    \A g \in goroutines :
       g.st = "running"
       => ~\E c \in Callers : lockW = c /\ InLoad(c) /\ local[c].id = g.load

\* C9: with an observer that never returns, every call under way returns in
\* the end, and every observer call dispatched for a reload is started.
C9_BlockedObserverStallsNobody ==
    /\ \A c \in ObserverCallers : (pc[c] # "idle") ~> (pc[c] = "idle")
    /\ \A l \in 1..MaxLoads, i \in 1..MaxWatchers :
          (\E g \in goroutines : g.load = l /\ g.idx = i /\ g.st = "ready")
          ~> (\A g \in goroutines : ~(g.load = l /\ g.idx = i /\ g.st = "ready"))

C9_Witness ==
    \E g, h \in goroutines, c \in ObserverCallers :
       /\ g.w = "wBlocks" /\ g.st = "running"
       /\ h.w = "wReturns" /\ h.st = "running" /\ h.load = g.load
       /\ pc[c] = "Load_unlock" /\ local[c].err = "" /\ local[c].id > g.load

\* C10: an observer callback that panics does not end the process.
C10_PanicDoesNotEndProcess ==
    (\E g \in goroutines : g.st = "panicked") => ~crashed

\* C11: whatever a caller does to a value an accessor returned, a record the
\* Loader has built keeps its fields: no step changes a record in place, so
\* later readers and observers get the fields the record was installed with.
C11_ReturnedValuesAreCopies ==
    [][\A p \in 1..Len(heap) : heap'[p] = heap[p]]_vars

\* C12: on a Manager with no successful Load an accessor finds no record;
\* finding none, a section accessor returns the section's zero value,
\* IsLoaded returns false, GetServerAddr and GetRedisAddr return ":",
\* GetDatabaseDSN returns its template with empty fields, and IsDevelopment,
\* IsProduction and IsDebug return false.
C12_UnloadedDefaults ==
    \A c \in Callers :
       pc[c] = "Read_runlock"
       => /\ installs = <<>> => local[c].cfg = 0
          /\ local[c].cfg = 0 =>
                LET op == local[c].op
                    res == local[c].res IN
                /\ op = "Server" => res = ServerConfig(<<>>, <<>>, 0, 0, 0)
                /\ op = "Database" =>
                      res = DatabaseConfig(<<>>, <<>>, <<>>, <<>>, <<>>, <<>>, 0)
                /\ op = "Redis" => res = RedisConfig(<<>>, <<>>, <<>>, 0)
                /\ op = "Log" => res = LogConfig(<<>>, <<>>, <<>>)
                /\ op = "JWT" => res = JWTConfig(<<>>, 0, <<>>)
                /\ op = "Email" => res = EmailConfig(<<>>, 0, <<>>, <<>>, <<>>)
                /\ op = "App" => res = AppConfig(<<>>, <<>>, <<>>, FALSE)
                /\ op = "IsLoaded" => res = FALSE
                /\ op \in {"GetServerAddr", "GetRedisAddr"} => res = <<":">>
                /\ op = "GetDatabaseDSN" =>
                      res = <<"h", "o", "s", "t", "=", " ", "p", "o", "r", "t", "=", " ", "u", "s", "e", "r", "=", " ", "p", "a", "s", "s", "w", "o", "r", "d", "=", " ", "d", "b", "n", "a", "m", "e", "=", " ", "s", "s", "l", "m", "o", "d", "e", "=">>
                /\ op \in {"IsDevelopment", "IsProduction", "IsDebug"} =>
                      res = FALSE

C12_Witness ==
    \E c, d \in Callers :
       /\ pc[c] = "Read_runlock" /\ local[c].op = "GetDatabaseDSN"
       /\ local[c].cfg = 0
       /\ pc[d] = "Read_runlock" /\ local[d].op = "Server"
       /\ local[d].cfg = 0
       /\ nloads > 0

\* C13: ValidateCurrent returns "no configuration loaded", which is no
\* ValidationError, when it found no record; else, when no other Validate
\* call disturbed its own, it returns the Validator's messages for the
\* record that was current during the call, and nil exactly when there are
\* none. A Load that was not disturbed installs only a record without
\* messages, so ValidateCurrent then returns nil.
C13_ValidateCurrentResult ==
    \A c \in Callers :
       /\ (pc[c] = "ValidateCurrent_return" /\ local[c].cfg = 0)
          => /\ local[c].err = "no configuration loaded"
             /\ local[c].from = 0
       /\ (pc[c] = "ValidateCurrent_return" /\ local[c].cfg # 0)
          => /\ \E k \in 1..Len(installs) :
                   installs[k] = local[c].cfg /\ k >= local[c].from
             /\ local[c].clean
                => /\ local[c].res = Violations(heap[local[c].cfg])
                   /\ local[c].err = IF Violations(heap[local[c].cfg]) = <<>>
                                     THEN "" ELSE "ValidationError"
       /\ (local[c].op = "Load" /\ pc[c] = "Load_install" /\ local[c].clean)
          => Violations(heap[local[c].cfg]) = <<>>

C13_Witness ==
    \E c, d \in Callers :
       /\ pc[c] = "ValidateCurrent_return"
       /\ local[c].cfg # 0
       /\ local[c].clean
       /\ local[c].err = ""
       /\ local[d].op = "Load"
       /\ pc[d] = "Validate_check"

\* C14: once a Load has succeeded there is a current record in every later
\* state, whatever calls follow and whether they succeed or fail: IsLoaded
\* called after a successful Load returns true and GetConfig non-nil.
C14_ForwardOnly ==
    /\ installs # <<>> => config # 0
    /\ \A c \in Callers :
          (pc[c] = "Read_runlock" /\ local[c].from >= 1)
          => /\ local[c].op = "IsLoaded" => local[c].res = TRUE
             /\ local[c].op = "GetConfig" => local[c].res # 0

C14_Witness ==
    /\ pc[Reader] = "Read_runlock"
    /\ local[Reader].op = "IsLoaded"
    /\ local[Reader].from >= 1
    /\ pc[Writer] = "Load_lock"
    /\ local[Writer].id = MaxLoads
    /\ Len(installs) = 1
    /\ watchers # <<>>

\* a caller inside a critical section of a writer: Load from its Lock to its
\* Unlock, AddWatcher and RemoveWatcher in their bodies
InWriter(c) == InLoad(c) \/ pc[c] = "Watcher_body"

\* a caller inside the critical section of a reader
InReader(c) == pc[c] \in {"Read_body", "Read_runlock"}

\* C16: a writer is never inside its critical section together with
\* another writer or with a reader.
C16_ReaderWriterExclusion ==
    \A c, d \in Callers :
       (c # d /\ InWriter(c)) => ~InWriter(d) /\ ~InReader(d)

\* two readers inside their critical sections at the same time, on a
\* Manager that writers have loaded and given an observer
C16_Witness ==
    \E c, d \in Callers :
       /\ c # d
       /\ InReader(c)
       /\ InReader(d)
       /\ config # 0
       /\ watchers # <<>>

\* C15: every step that reads or writes m.config or m.watchers is taken by
\* a caller that holds the lock, shared for a read and exclusive for a
\* write: the accessors' reads, Reload's read, Load's install and dispatch,
\* the bodies of AddWatcher and RemoveWatcher.
C15_AccessUnderLock ==
    \A c \in Callers :
       /\ pc[c] \in {"Read_body", "Reload_read"} => (c \in lockR \/ lockW = c)
       /\ pc[c] \in {"Load_install", "Load_notify", "Watcher_body"} => lockW = c

\* C17: every call of the Manager under way returns in the end, also a call
\* made by an observer's callback on the same Manager, and while a call is
\* under way some call can take a step.
C17_NoCallBlocksForEver ==
    /\ \A c \in Callers : (pc[c] # "idle") ~> (pc[c] = "idle")
    /\ []((\E c \in Callers : pc[c] # "idle")
          => ENABLED (\E c \in Callers : Progress(c)))

\* the callback's call waits for the lock that the Load which started the
\* callback still holds
C17_Witness ==
    \E g \in goroutines :
       /\ g.w = "wCalls"
       /\ g.st = "running"
       /\ pc[CallbackCaller] \in {"Read_rlock", "Load_lock", "Watcher_lock"}
       /\ lockW = MainCaller
       /\ InLoad(MainCaller)
       /\ local[MainCaller].id = g.load

\* the file Hybrid is pointed at cannot be used: CONFIG_PATH is unset, or
\* the file it names is missing or cannot be parsed
NoUsableFile(src) ==
    \/ src[2]["CONFIG_PATH"] = <<>>
    \/ src[1][src[2]["CONFIG_PATH"]].kind \in {"missing", "unparsable"}

\* C18: a fetch with the Hybrid strategy never fails, and where the file
\* cannot be used it yields the record of the Environment strategy; a
\* Load(Hybrid) is never refused by the Loader, and with valid variables it
\* installs the record it fetched.
C18_HybridFallback ==
    /\ [](\A c \in Callers :
            (pc[c] = "Load_unlock" /\ local[c].strategy = HybridStrategy)
            => /\ local[c].err = ""
               /\ config = local[c].cfg)
    /\ [][\A c \in Callers, src \in HybridSources :
            (Load_fetch(c, src[1], src[2]) /\ local[c].strategy = HybridStrategy)
            => /\ local'[c].err = ""
               /\ local'[c].cfg = Len(heap')
               /\ NoUsableFile(src)
                  => heap'[local'[c].cfg] = LoadFromEnvironment(src[2])]_vars

\* a Load(Hybrid) has installed the record of the environment although
\* CONFIG_PATH names a file
C18_Witness ==
    \E c \in Callers, src \in HybridSources :
       /\ pc[c] = "Load_unlock"
       /\ local[c].strategy = HybridStrategy
       /\ local[c].err = ""
       /\ src[2]["CONFIG_PATH"] # <<>>
       /\ config # 0
       /\ heap[config] = LoadFromEnvironment(src[2])

\* C19: where the File strategy succeeds, with the path of CONFIG_PATH or
\* else config.yaml, a fetch with the Hybrid strategy yields the record the
\* File strategy yields.
C19_HybridTriesFileFirst ==
    [][\A c \in Callers, src \in HybridSources :
          (/\ Load_fetch(c, src[1], src[2])
           /\ local[c].strategy = HybridStrategy
           /\ LoaderLoad(FileStrategy, src[1], src[2]).err = "")
          => heap'[local'[c].cfg] = LoaderLoad(FileStrategy, src[1], src[2]).cfg]_vars

\* C20: Reload goes on as a Load with the File strategy when the current
\* record's App.Environment is "production", and with the Environment
\* strategy otherwise, also when there is no record; when its File load
\* fails, the record and the observer list stay and no observer is called,
\* and when it replaces a record it dispatches the observers.
C20_ReloadStrategy ==
    /\ [][\A c \in Callers :
            Reload_read(c)
            => /\ pc'[c] = "Load_lock"
               /\ local'[c] =
                     [NoLocal EXCEPT
                        !.op = "Load",
                        !.id = local[c].id,
                        !.strategy =
                           IF config # 0
                              /\ heap[config].App.Environment
                                 = <<"p", "r", "o", "d", "u", "c", "t", "i", "o", "n">>
                           THEN 1 ELSE 0]]_vars
    /\ [](\A c \in Callers :
            (pc[c] = "Load_unlock" /\ local[c].strategy = FileStrategy)
            => IF local[c].err # ""
               THEN /\ config = local[c].pre.config
                    /\ watchers = local[c].pre.watchers
                    /\ local[c].sent = <<>>
               ELSE /\ config = local[c].cfg
                    /\ local[c].sent = watchers)

\* a Reload of a production record has gone on with the File strategy and
\* failed, the file missing, with an observer registered
C20_Witness ==
    \E c \in Callers :
       /\ pc[c] = "Load_unlock"
       /\ local[c].strategy = FileStrategy
       /\ local[c].err = "failed to load configuration"
       /\ config # 0
       /\ heap[config].App.Environment = S_production
       /\ watchers # <<>>

\* C21: Reload loads again from the source the current record came from.
\* In runs whose Load calls all pass the Environment strategy every record
\* comes from the environment, so every load a Reload goes on with uses the
\* Environment strategy, whatever App.Environment is in the record.
C21_ReloadKeepsSource ==
    \A c \in Callers :
       (local[c].op = "Load" /\ pc[c] = "Load_lock")
       => local[c].strategy = EnvironmentStrategy

\* C22: a Validate call runs the rules of every section, whatever the
\* sections before found: it returns the messages of the violated rules of
\* Server, Database, Redis, Log, JWT, Email and App, in that order, and nil
\* exactly when no section has a message; the record with an empty server
\* port, an empty database host and a JWT secret of 5 characters gets the
\* three messages of these rules.
C22_AllViolationsReported ==
    \A c \in Callers :
       pc[c] = "Validate_return"
       => LET record == heap[local[c].cfg] IN
          /\ local[c].res = validateServer(record.Server)
                              \o validateDatabase(record.Database)
                              \o validateRedis(record.Redis)
                              \o validateLog(record.Log)
                              \o validateJWT(record.JWT)
                              \o validateEmail(record.Email)
                              \o validateApp(record.App)
          /\ (local[c].err = "")
             <=> (\A sec \in Sections : validateSection(sec, record) = <<>>)
          /\ local[c].err \in {"", "ValidationError"}
          /\ record = ThreeViolations
             => local[c].res = <<"server port is required",
                                 "database host is required",
                                 "JWT secret must be at least 32 characters long">>

C22_Witness ==
    \E c \in Callers :
       /\ pc[c] = "Validate_return"
       /\ heap[local[c].cfg] = ThreeViolations
       /\ Len(local[c].res) = 3
       /\ local[c].err = "ValidationError"

\* C23: two Validate calls on equal records return the same result; no
\* message of a result comes from another record than the one validated,
\* and a result once returned stays as it was; no step of a Validate or
\* ValidateCurrent call changes Manager.config, the record it designates or
\* Manager.watchers.
C23_IdempotentValidation ==
    /\ [](\A c \in Callers :
            LET past == local[c].past IN
            /\ \A i, j \in 1..Len(past) :
                  heap[past[i].cfg] = heap[past[j].cfg]
                  => past[i].res = past[j].res /\ past[i].err = past[j].err
            /\ \A i \in 1..Len(past) :
                  \A m \in 1..Len(past[i].res) :
                     \E sec \in Sections :
                        InList(past[i].res[m],
                               validateSection(sec, heap[past[i].cfg])))
    /\ [][/\ (\E c \in Callers : local[c].op \in {"Validate", "ValidateCurrent"})
             => /\ config' = config
                /\ watchers' = watchers
                /\ config # 0 => heap'[config] = heap[config]
          /\ \A c \in Callers :
                \A i \in 1..Len(local[c].past) :
                   Len(local'[c].past) >= i => local'[c].past[i] = local[c].past[i]]_vars

C23_Witness ==
    \E c \in Callers :
       /\ Len(local[c].past) = 2
       /\ local[c].past[1].cfg = local[c].past[2].cfg
       /\ local[c].past[1].res # <<>>
       /\ config # 0
       /\ watchers # <<>>

\* C24: Validate gives a record whose JWT secret has 32 characters (or
\* more) neither message about the secret, a record whose secret has 1 to
\* 31 characters the message "JWT secret must be at least 32 characters
\* long" and not "JWT secret is required", and a record with the empty
\* secret "JWT secret is required" and not the other.
C24_JWTBoundary ==
    \A c \in Callers :
       pc[c] = "Validate_return"
       => LET n == Len(heap[local[c].cfg].JWT.Secret)
              required == InList("JWT secret is required", local[c].res)
              short == InList("JWT secret must be at least 32 characters long",
                              local[c].res)
          IN /\ n >= 32 => ~required /\ ~short
             /\ n \in 1..31 => ~required /\ short
             /\ n = 0 => required /\ ~short

C24_Witness ==
    \E c \in Callers :
       /\ pc[c] = "Validate_return"
       /\ Len(local[c].past) = 1
       /\ Len(heap[local[c].past[1].cfg].JWT.Secret) = 31
       /\ local[c].past[1].err = "ValidationError"
       /\ Len(heap[local[c].cfg].JWT.Secret) = 32
       /\ local[c].err = ""

\* C25: Validate gives a record the message "redis database number must be
\* between 0 and 15" exactly when its Redis.DB is below 0 or above 15.
C25_RedisDBBoundary ==
    \A c \in Callers :
       pc[c] = "Validate_return"
       => LET db == heap[local[c].cfg].Redis.DB IN
          InList("redis database number must be between 0 and 15", local[c].res)
          <=> ~(db \in 0..15)

C25_Witness ==
    \E c \in Callers :
       /\ pc[c] = "Validate_return"
       /\ Len(local[c].past) = 1
       /\ heap[local[c].past[1].cfg].Redis.DB = 16
       /\ local[c].past[1].err = "ValidationError"
       /\ heap[local[c].cfg].Redis.DB = 15
       /\ local[c].err = ""

\* C26: Validate gives a record with an empty Email.Host no message about
\* the mail settings, whatever its port, user name and sender are; with a
\* host it gives the port message exactly when the port is outside
\* 1..65535, the user-name message exactly when the user name is empty
\* and the sender message exactly when the sender is empty.
C26_EmailRulesNeedHost ==
    \A c \in Callers :
       pc[c] = "Validate_return"
       => LET email == heap[local[c].cfg].Email
              port == InList("email port must be between 1 and 65535",
                             local[c].res)
              user == InList("email username is required when email host is provided",
                             local[c].res)
              from == InList("email from address is required when email host is provided",
                             local[c].res)
          IN /\ email.Host = S_empty => ~port /\ ~user /\ ~from
             /\ email.Host # S_empty
                => /\ port <=> ~(email.Port \in 1..65535)
                   /\ user <=> email.Username = S_empty
                   /\ from <=> email.From = S_empty

C26_Witness ==
    \E c \in Callers :
       /\ pc[c] = "Validate_return"
       /\ Len(local[c].past) = 1
       /\ heap[local[c].past[1].cfg].Email = EmailConfig(S_localhost, 65536, S_empty, S_empty, S_empty)
       /\ Len(local[c].past[1].res) = 3
       /\ heap[local[c].cfg].Email = EmailConfig(S_empty, 65536, S_empty, S_empty, S_empty)
       /\ local[c].err = ""

\* the variable is unset or set to the empty string
Missing(process, key) == ~process[key].set \/ process[key].value = S_empty

ViperTypedKeys == (IntKeys \cup BoolKeys \cup DurationKeys) \ {"DB_MAX_CONNS"}

\* the parse getIntEnv, getBoolEnv or getDurationEnv makes of a value
Parsed(key, value) ==
    IF key \in IntKeys THEN parseInt(value)
    ELSE IF key \in BoolKeys THEN parseBool(value)
    ELSE ParseDuration(value)

C29_MalformedPortDefaults ==
    [][\A c \in Callers, process \in ProcessEnvs :
          (/\ pc[c] = "Load_fetch"
           /\ local[c].strategy = EnvironmentStrategy
           /\ process["SERVER_PORT"] = SetTo(<<"a", "b", "c">>)
           /\ Load_fetch(c, NoFiles, Getenv(process)))
          => /\ heap'[local'[c].cfg].Server.Port = S_8080
             /\ validateServer(heap'[local'[c].cfg].Server) = <<>>]_vars

\* C30: a fetch with the Environment strategy that finds JWT_SECRET unset,
\* empty or shorter than 32 characters yields a record whose secret is
\* shorter than 32 characters (the default has 15), and a Load(Environment)
\* that fetched such a record installs nothing: it returns the validation
\* failure, with a message about the secret, and Manager.config is what
\* it was when the Load took the lock.
C30_JWTSecretRequired ==
    /\ [][\A c \in Callers, process \in ProcessEnvs :
            (/\ pc[c] = "Load_fetch"
             /\ local[c].strategy = EnvironmentStrategy
             /\ (Missing(process, "JWT_SECRET")
                 \/ Len(process["JWT_SECRET"].value) < 32)
             /\ Load_fetch(c, NoFiles, Getenv(process)))
            => Len(heap'[local'[c].cfg].JWT.Secret) \in 1..31]_vars
    /\ [](\A c \in Callers :
            (/\ local[c].op = "Load"
             /\ local[c].strategy = EnvironmentStrategy
             /\ pc[c] \in {"Load_install", "Load_notify", "Load_unlock"}
             /\ local[c].cfg # 0
             /\ Len(heap[local[c].cfg].JWT.Secret) < 32)
            => /\ pc[c] = "Load_unlock"
               /\ local[c].err = "configuration validation failed"
               /\ InList("JWT secret must be at least 32 characters long",
                         local[c].res)
               /\ config = local[c].pre.config
               /\ config # local[c].cfg)

\* after a Load that installed a record, a Load(Environment) that fetched
\* the default secret is about to return its validation failure
C30_Witness ==
    \E c \in Callers :
       /\ local[c].op = "Load"
       /\ local[c].strategy = EnvironmentStrategy
       /\ pc[c] = "Load_unlock"
       /\ local[c].err = "configuration validation failed"
       /\ heap[local[c].cfg].JWT.Secret = S_default_secret
       /\ config = 1
       /\ local[c].cfg = 2

C32_UnknownStrategyIsEnvironment ==
    /\ [][\A c \in Callers, src \in StrategySources :
            (/\ pc[c] = "Load_fetch"
             /\ local[c].strategy \in UnknownStrategies
             /\ Load_fetch(c, src[1], src[2]))
            => /\ local'[c].err = ""
               /\ pc'[c] = "Validate_reset"
               /\ heap' = Append(heap, LoadFromEnvironment(src[2]))
               /\ local'[c] = [local[c] EXCEPT !.cfg = Len(heap) + 1]]_vars
    /\ [](\A c \in Callers :
            (/\ pc[c] = "Load_unlock"
             /\ local[c].strategy \in {EnvironmentStrategy} \cup UnknownStrategies)
            => LET ok == Violations(heap[local[c].cfg]) = <<>> IN
               /\ local[c].cfg # 0
               /\ local[c].err = IF ok THEN "" ELSE "configuration validation failed"
               /\ config = IF ok THEN local[c].cfg ELSE local[c].pre.config
               /\ watchers = local[c].pre.watchers
               /\ local[c].sent = IF ok /\ local[c].pre.config # 0
                                   THEN watchers ELSE <<>>)

\* a Load with a value that is no declared strategy has replaced a record
\* by the record of the environment and dispatched the observer
C32_Witness ==
    \E c \in Callers :
       /\ pc[c] = "Load_unlock"
       /\ local[c].strategy \in UnknownStrategies
       /\ local[c].err = ""
       /\ local[c].old # 0
       /\ local[c].sent = <<"wReturns">>
       /\ heap[config] = LoadFromEnvironment(EnvOf(S_8080, S_long_secret, S_empty))

\* how often a message is in a list of messages
Count(msg, list) == Cardinality({i \in 1..Len(list) : list[i] = msg})

\* C33: Validate accepts INFO and Warn as log level, Json and TEXT as log
\* format and Production and TEST as application environment, as it does
\* the lowercase spellings; it accepts as SSL mode disable, require,
\* verify-ca and verify-full and neither Disable nor REQUIRE; a value
\* outside the set gets the message of its rule once, and no other message.
C33_LetterCase ==
    \A c \in Callers :
       pc[c] = "Validate_return"
       => LET record == heap[local[c].cfg]
              res == local[c].res
              level == Count("log level must be one of: debug, info, warn, warning, error, fatal, panic", res)
              format == Count("log format must be one of: json, text, console", res)
              environment == Count("application environment must be one of: development, staging, production, test", res)
              sslmode == Count("database SSL mode must be one of: disable, require, verify-ca, verify-full", res)
          IN /\ level = IF record.Log.Level
                            \in {<<"v", "e", "r", "b", "o", "s", "e">>, S_empty}
                         THEN 1 ELSE 0
             /\ format = IF record.Log.Format = <<"x", "m", "l">> THEN 1 ELSE 0
             /\ environment = IF record.App.Environment = <<"p", "r", "o", "d">>
                               THEN 1 ELSE 0
             /\ sslmode = IF record.Database.SSLMode
                              \in {<<"D", "i", "s", "a", "b", "l", "e">>,
                                   <<"R", "E", "Q", "U", "I", "R", "E">>,
                                   <<"a", "l", "l", "o", "w">>}
                           THEN 1 ELSE 0
             /\ (record.Server.Port = S_8080 /\ record.Database.Port = S_5432
                 /\ record.Redis.Port = S_6379)
                => Len(res) = level + format + environment + sslmode

\* Validate has accepted the level INFO and is about to return the one
\* message for the SSL mode REQUIRE
C33_Witness ==
    \E c \in Callers :
       /\ pc[c] = "Validate_return"
       /\ Len(local[c].past) = 1
       /\ heap[local[c].past[1].cfg].Log.Level = <<"I", "N", "F", "O">>
       /\ local[c].past[1].err = ""
       /\ heap[local[c].cfg].Database.SSLMode = <<"R", "E", "Q", "U", "I", "R", "E">>
       /\ Len(local[c].res) = 1

\* C34: the record a fetch with the File strategy yields from a readable
\* file is the record written in the file, whatever the process
\* environment holds.
C34_FileRecordFromFileOnly ==
    [][\A c \in Callers, fs \in EnvironmentFiles, process \in ProcessEnvs :
          (/\ pc[c] = "Load_fetch"
           /\ local[c].strategy = FileStrategy
           /\ pc'[c] = "Validate_reset"
           /\ fs[getEnv(Getenv(process), "CONFIG_PATH", S_config_yaml)].kind = "ok"
           /\ Load_fetch(c, fs, Getenv(process)))
          => heap'[local'[c].cfg]
               = fs[getEnv(Getenv(process), "CONFIG_PATH", S_config_yaml)].cfg]_vars

\* the operations that only read
ReadOps == {"GetConfig", "IsLoaded"} \cup Sections \cup Helpers

\* C35: no step of GetConfig, a Get<Section>Config, IsLoaded or a helper
\* changes Manager.config, a record, Manager.watchers or Validator.errors,
\* dispatches an observer call or enters the Validator; and what a helper
\* returns is derived from one section of one record, which was the
\* current one at a moment of the call.
C35_ReadOnlyOperations ==
    /\ [][\A c \in Callers :
            (local[c].op \in ReadOps /\ pc'[c] # pc[c])
            => /\ config' = config
               /\ heap' = heap
               /\ watchers' = watchers
               /\ goroutines' = goroutines
               /\ errors' = errors
               /\ installs' = installs
               /\ pc'[c] \in {"Read_body", "Read_runlock", "idle"}]_vars
    /\ [](\A c \in Callers :
            (pc[c] = "Read_runlock" /\ local[c].op \in Helpers /\ local[c].cfg # 0)
            => LET p == local[c].cfg
                   op == local[c].op
                   res == local[c].res
               IN /\ \E k \in 1..Len(installs) :
                        installs[k] = p /\ k >= local[c].from
                  /\ op = "GetDatabaseDSN" => res = GetDatabaseDSN(heap[p].Database)
                  /\ op = "GetRedisAddr"
                     => res = heap[p].Redis.Host \o <<":">> \o heap[p].Redis.Port
                  /\ op = "GetServerAddr"
                     => res = heap[p].Server.Host \o <<":">> \o heap[p].Server.Port
                  /\ op = "IsDevelopment"
                     => res = (heap[p].App.Environment = S_development)
                  /\ op = "IsProduction"
                     => res = (heap[p].App.Environment = S_production)
                  /\ op = "IsDebug" => res = heap[p].App.Debug)

\* GetServerAddr has read the record that a Load installed after the
\* call began, with an observer registered and its call dispatched
C35_Witness ==
    \E c \in Callers :
       /\ pc[c] = "Read_runlock"
       /\ local[c].op = "GetServerAddr"
       /\ local[c].cfg # 0
       /\ local[c].from < Len(installs)
       /\ local[c].cfg = installs[Len(installs)]
       /\ watchers # <<>>
       /\ goroutines # {}

\* the positions of the observer list for which the Load numbered id has a
\* call under way
Dispatched(id) == {g.idx : g \in GoroutinesOf(id)}

\* C36: from the moment a Load holds the lock to its return the observer
\* list is the one it found, so the list at the install is the list left by
\* the AddWatcher and RemoveWatcher calls that returned before; a Load that
\* replaced a record has, at its return, dispatched one call per entry of
\* that list, a twice-registered observer twice; the list changes only in
\* the step of an AddWatcher or RemoveWatcher, that step dispatches
\* nothing, and no call is dispatched for a Load outside its own loop.
C36_NotifiedAtInstall ==
    /\ [](\A c \in Callers :
            /\ pc[c] \in {"Load_install", "Load_notify", "Load_unlock"}
               => watchers = local[c].pre.watchers
            /\ (pc[c] = "Load_unlock" /\ local[c].err = "" /\ local[c].old # 0)
               => /\ local[c].sent = local[c].pre.watchers
                  /\ Dispatched(local[c].id) \subseteq 1..Len(watchers))
    /\ [][/\ watchers' # watchers
             => \E c \in Callers :
                   /\ pc[c] = "Watcher_body"
                   /\ pc'[c] = "idle"
                   /\ goroutines' = goroutines
                   /\ \A d \in Callers \ {c} : local'[d] = local[d]
          /\ \A id \in 1..MaxLoads :
                (~ \E c \in Callers : pc[c] = "Load_notify" /\ local[c].id = id)
                => Dispatched(id)' \subseteq Dispatched(id)
          /\ \A c \in Callers :
                (pc[c] = "Load_notify" /\ local'[c].i # local[c].i)
                => /\ local'[c].sent = Append(local[c].sent, watchers[local[c].i])
                   /\ Dispatched(local[c].id)'
                        = Dispatched(local[c].id) \cup {local[c].i}]_vars

\* a Load that replaced a record returns having dispatched two calls to an
\* observer registered twice, both still under way, while a RemoveWatcher
\* of another caller waits for the lock
C36_Witness ==
    \E c, d \in Callers :
       /\ pc[c] = "Load_unlock"
       /\ local[c].err = ""
       /\ local[c].old # 0
       /\ local[c].sent = <<"wReturns", "wReturns">>
       /\ Dispatched(local[c].id) = {1, 2}
       /\ pc[d] = "Watcher_lock"
       /\ local[d].op = "RemoveWatcher"

\* C37: for an installed record whose App.Environment is production in any
\* letter case, as validateApp accepts it, IsProduction returns true and
\* Reload chooses the File strategy; and IsDevelopment returns true for
\* development in any letter case.
C37_PredicatesAgreeWithValidator ==
    /\ [](\A c \in Callers :
            (pc[c] = "Read_runlock" /\ local[c].cfg # 0)
            => LET name == ToLower(heap[local[c].cfg].App.Environment) IN
               /\ (local[c].op = "IsProduction" /\ name = S_production)
                  => local[c].res = TRUE
               /\ (local[c].op = "IsDevelopment" /\ name = S_development)
                  => local[c].res = TRUE)
    /\ [][\A c \in Callers :
            (/\ pc[c] = "Reload_read"
             /\ pc'[c] = "Load_lock"
             /\ config # 0
             /\ ToLower(heap[config].App.Environment) = S_production)
            => local'[c].strategy = FileStrategy]_vars

\* C38: a record that Validate accepts has a server, a database and a
\* Redis port that ValidatePort accepts too, each an integer of 1..65535;
\* and ValidatePort returns an error for a string that is no integer and
\* for an integer below 1 or above 65535, and nil otherwise.
C38_AcceptedPortsInRange ==
    /\ \A c \in Callers :
          (pc[c] = "Validate_return" /\ local[c].res = <<>>)
          => \A sec \in {"Server", "Database", "Redis"} :
                LET port == heap[local[c].cfg][sec].Port IN
                /\ ValidatePort(port) = <<>>
                /\ Atoi(port).ok
                /\ Atoi(port).val \in 1..MaxPort
    /\ \A port \in PortSpellings :
          (ValidatePort(port) = <<>>)
             <=> (Atoi(port).ok /\ Atoi(port).val >= 1 /\ Atoi(port).val <= MaxPort)

====
